---- MODULE Spec2Model ----
(***************************************************************************)
(* A model of picopayments: the script template engine (scripts.py) and    *)
(* the channel state engine (channel/base.py).                             *)
(*                                                                         *)
(* Byte strings are records [len, val]: the length in bytes and the value  *)
(* of the bytes read as a little-endian natural number.  Their hex text is *)
(* the token [t |-> "hex", len, val].  A compiled script is the sequence   *)
(* of its words [op, len, val]; a word without pushed data has len = 0.    *)
(***************************************************************************)
EXTENDS Integers, Sequences, FiniteSets, TLC

VARIABLES
    \* Base: the persistent fields of one channel (base.py 17-41)
    payer_wif, payee_wif, spend_secret, deposit_script_hex, deposit_rawtx,
    timeout_rawtx, change_rawtx, commits_requested, commits_active,
    commits_revoked,
    \* the last public operation that ended: its name, arguments, outcome
    \* and return value
    last,
    \* replayed.matching: the active entries that embedded the hash of the
    \* secret when the last operation, a revoke, began (0 for any other);
    \* replayed.first: when the operation right before it was a revoke of
    \* the same secret that returned an entry, that revoke's matching;
    \* replayed.again: the last operation was a read, and the operation
    \* right before it was the same read with the same arguments
    replayed,
    \* threads calling into the channel, and the channel's RLock
    thread, mutex,
    \* the script engine's caller: parameters, compiled script, decompiled
    sc,
    \* the objects of a program with two channels: the lists on the heap,
    \* the class attributes of Base, each instance's own attributes, and
    \* the snapshot the caller holds
    heap

fields == <<payer_wif, payee_wif, spend_secret, deposit_script_hex,
            deposit_rawtx, timeout_rawtx, change_rawtx, commits_requested,
            commits_active, commits_revoked>>

vars == <<payer_wif, payee_wif, spend_secret, deposit_script_hex,
          deposit_rawtx, timeout_rawtx, change_rawtx, commits_requested,
          commits_active, commits_revoked, last, replayed,
          thread, mutex, sc, heap>>

\* Python's None for a string-valued field
None == "None"

(***************************************************************************)
(* scripts.py                                                              *)
(***************************************************************************)

MAX_SEQUENCE == 65535

\* the opcodes the two templates use (pycoin's OPCODE_TO_INT)
OPCODE_TO_INT ==
    [OP_0 |-> 0, OP_IF |-> 99, OP_ELSE |-> 103, OP_ENDIF |-> 104,
     OP_1 |-> 81, OP_DROP |-> 117, OP_EQUALVERIFY |-> 136, OP_HASH160 |-> 169,
     OP_CHECKSIG |-> 172, OP_CHECKMULTISIG |-> 174, OP_NOP3 |-> 178,
     OP_PUBKEYHASH |-> 253, OP_PUBKEY |-> 254]

\* tokens of a script text
Op(name) == [t |-> "op", name |-> name, len |-> 0, val |-> 0]
Hex(len, val) == [t |-> "hex", name |-> "", len |-> len, val |-> val]
Dec(n) == [t |-> "dec", name |-> "", len |-> 0, val |-> n]

b2h(data) == Hex(data.len, data.val)
h2b(hex) == [len |-> hex.len, val |-> hex.val]

Word(op, len, val) == [op |-> op, len |-> len, val |-> val]
NoWord == Word(-1, 0, 0)

\* the decimal digits of n, most significant first: str(n)
RECURSIVE str(_)
str(n) == IF n < 10 THEN <<n>> ELSE Append(str(n \div 10), n % 10)

\* binascii.unhexlify of a digit text of even length: each pair of digits
\* is one byte, read as hexadecimal; the bytes' little-endian value
RECURSIVE unhexlify(_)
unhexlify(digits) ==
    IF Len(digits) = 0 THEN 0
    ELSE (16 * digits[1] + digits[2])
         + 256 * unhexlify(SubSeq(digits, 3, Len(digits)))

\* tools.compile of one token: an opcode name, a number n with an opcode
\* OP_n (0..16), or else hex text pushed as data (a number's decimal text
\* is read as hex text like any other token; the numbers of Timelocks
\* have texts of even length, which unhexlify accepts)
compile_token(tok) ==
    CASE tok.t = "op" -> Word(OPCODE_TO_INT[tok.name], 0, 0)
      [] tok.t = "hex" -> Word(tok.len, tok.len, tok.val)
      [] tok.t = "dec" /\ tok.val = 0 -> Word(0, 0, 0)
      [] tok.t = "dec" /\ tok.val \in 1..16 -> Word(80 + tok.val, 0, 0)
      [] OTHER ->
           LET digits == str(tok.val)
           IN  Word(Len(digits) \div 2, Len(digits) \div 2, unhexlify(digits))

compile(script_text) ==
    [i \in 1..Len(script_text) |-> compile_token(script_text[i])]

DEPOSIT_SCRIPT(payer_pubkey, payee_pubkey, spend_secret_hash, expire_time) ==
    << Op("OP_IF"),
         Dec(2), payer_pubkey, payee_pubkey, Dec(2), Op("OP_CHECKMULTISIG"),
       Op("OP_ELSE"),
         Op("OP_IF"),
           Op("OP_HASH160"), spend_secret_hash, Op("OP_EQUALVERIFY"),
           payer_pubkey, Op("OP_CHECKSIG"),
         Op("OP_ELSE"),
           expire_time, Op("OP_NOP3"), Op("OP_DROP"),
           payer_pubkey, Op("OP_CHECKSIG"),
         Op("OP_ENDIF"),
       Op("OP_ENDIF") >>

COMMIT_SCRIPT(payer_pubkey, payee_pubkey, spend_secret_hash, revoke_secret_hash, delay_time) ==
    << Op("OP_IF"),
         delay_time, Op("OP_NOP3"), Op("OP_DROP"),
         Op("OP_HASH160"), spend_secret_hash, Op("OP_EQUALVERIFY"),
         payee_pubkey, Op("OP_CHECKSIG"),
       Op("OP_ELSE"),
         Op("OP_HASH160"), revoke_secret_hash, Op("OP_EQUALVERIFY"),
         payer_pubkey, Op("OP_CHECKSIG"),
       Op("OP_ENDIF") >>

\* the while loop of get_word: pc counts words, i the words read
RECURSIVE get_word_loop(_, _, _, _, _)
get_word_loop(script, index, pc, i, word) ==
    IF pc < Len(script) /\ i <= index
    THEN get_word_loop(script, index, pc + 1, i + 1, script[pc + 1])
    ELSE [i |-> i, word |-> word]

\* the word the loop ended on, whatever its position
get_word_unchecked(script, index) ==
    [err |-> "", word |-> get_word_loop(script, index, 0, 0, NoWord).word]

get_word(script, index) ==
    LET r == get_word_loop(script, index, 0, 0, NoWord)
    IN  IF r.i # index + 1
        THEN [err |-> "ValueError", word |-> NoWord]
        ELSE [err |-> "", word |-> r.word]

\* tools.int_from_script_bytes: little-endian, the top bit of the last
\* byte is the sign
RECURSIVE pow2(_)
pow2(n) == IF n = 0 THEN 1 ELSE 2 * pow2(n - 1)

int_from_script_bytes(len, val) ==
    IF len = 0 THEN 0
    ELSE LET top == pow2(8 * len - 1)
         IN  IF val >= top THEN -(val - top) ELSE val

parse_sequence_value(word) ==
    LET opcode == word.op
        value == IF opcode = 0 THEN 0
                 ELSE IF 0 < opcode /\ opcode < 76
                      THEN int_from_script_bytes(word.len, word.val)
                      ELSE opcode - 80
    IN  IF ~(opcode = 0 \/ (0 < opcode /\ opcode < 76)
                        \/ (80 < opcode /\ opcode < 97))
        THEN [err |-> "ValueError", value |-> 0]
        ELSE IF value > MAX_SEQUENCE
             THEN [err |-> "ValueError", value |-> 0]
             ELSE [err |-> "", value |-> value]

\* a getter that returns b2h(data) of the word at a fixed position
get_hex_at(script, index) ==
    LET w == get_word(script, index)
    IN  IF w.err # "" THEN [err |-> w.err, hex |-> Hex(0, 0)]
        ELSE [err |-> "", hex |-> b2h(w.word)]

\* a getter that returns parse_sequence_value of the word at a position
get_time_at(script, index) ==
    LET w == get_word(script, index)
    IN  IF w.err # "" THEN [err |-> w.err, value |-> 0]
        ELSE parse_sequence_value(w.word)

get_commit_payer_pubkey(script) == get_hex_at(script, 13)
get_commit_payee_pubkey(script) == get_hex_at(script, 7)
get_commit_delay_time(script) == get_time_at(script, 1)
get_commit_spend_secret_hash(script) == get_hex_at(script, 5)
get_commit_revoke_secret_hash(script) == get_hex_at(script, 11)
get_deposit_payer_pubkey(script) == get_hex_at(script, 2)
get_deposit_payee_pubkey(script) == get_hex_at(script, 3)
get_deposit_expire_time(script) == get_time_at(script, 14)
get_deposit_spend_secret_hash(script) == get_hex_at(script, 9)

compile_deposit_script(payer_pubkey, payee_pubkey, spend_secret_hash, expire_time) ==
    compile(DEPOSIT_SCRIPT(payer_pubkey, payee_pubkey, spend_secret_hash,
                           Dec(expire_time)))

compile_commit_script(payer_pubkey, payee_pubkey, spend_secret_hash, revoke_secret_hash, delay_time) ==
    compile(COMMIT_SCRIPT(payer_pubkey, payee_pubkey, spend_secret_hash,
                          revoke_secret_hash, Dec(delay_time)))

\* ScriptType.match: the script against a template, word by word; the
\* template's OP_PUBKEY takes 33..120 bytes of data, its OP_PUBKEYHASH 20
RECURSIVE match_loop(_, _, _, _)
match_loop(template, script, k, r) ==
    IF k > Len(script) /\ k > Len(template) THEN r
    ELSE IF k > Len(script) \/ k > Len(template)
    THEN [r EXCEPT !.ok = FALSE]
    ELSE LET w1 == script[k]
             w2 == template[k]
             data1 == [len |-> w1.len, val |-> w1.val]
         IN  IF w2.op = OPCODE_TO_INT.OP_PUBKEY
             THEN IF w1.len < 33 \/ w1.len > 120
                  THEN [r EXCEPT !.ok = FALSE]
                  ELSE match_loop(template, script, k + 1,
                         [r EXCEPT !.PUBKEY_LIST = Append(@, data1)])
             ELSE IF w2.op = OPCODE_TO_INT.OP_PUBKEYHASH
             THEN IF w1.len # 20
                  THEN [r EXCEPT !.ok = FALSE]
                  ELSE match_loop(template, script, k + 1,
                         [r EXCEPT !.PUBKEYHASH_LIST = Append(@, data1)])
             ELSE IF w1 # w2
                  THEN [r EXCEPT !.ok = FALSE]
                  ELSE match_loop(template, script, k + 1, r)

match(template, script) ==
    match_loop(template, script, 1,
               [ok |-> TRUE, PUBKEY_LIST |-> << >>, PUBKEYHASH_LIST |-> << >>])

\* what from_script gives: the error raised, or the object's attributes
Decompiled(err, payer_sec, payee_sec, spend_secret_hash, revoke_secret_hash, time) ==
    [err |-> err, payer_sec |-> payer_sec, payee_sec |-> payee_sec,
     spend_secret_hash |-> spend_secret_hash,
     revoke_secret_hash |-> revoke_secret_hash, time |-> time]

NoBytes == [len |-> 0, val |-> 0]
Raised(err) == Decompiled(err, NoBytes, NoBytes, Hex(0, 0), Hex(0, 0), 0)

\* AbsScriptChannelCommit.from_script, for the class whose TEMPLATE is given
CommitFromScript(TEMPLATE, script) ==
    LET r == match(TEMPLATE, script)
        delay_time == get_commit_delay_time(TEMPLATE)
    IN  IF ~r.ok \/ (r.PUBKEY_LIST = << >> /\ r.PUBKEYHASH_LIST = << >>)
        THEN Raised("ValueError")
        ELSE IF delay_time.err # "" THEN Raised(delay_time.err)
        ELSE IF Len(r.PUBKEYHASH_LIST) < 2 \/ Len(r.PUBKEY_LIST) < 2
        THEN Raised("IndexError")
        ELSE LET spend_secret_hash == b2h(r.PUBKEYHASH_LIST[1])
                 payee_sec == r.PUBKEY_LIST[1]
                 revoke_secret_hash == b2h(r.PUBKEYHASH_LIST[2])
                 payer_sec == r.PUBKEY_LIST[2]
                 obj_script == compile_commit_script(
                     b2h(payer_sec), b2h(payee_sec), spend_secret_hash,
                     revoke_secret_hash, delay_time.value)
             IN  IF obj_script # script THEN Raised("AssertionError")
                 ELSE Decompiled("", payer_sec, payee_sec, spend_secret_hash,
                                 revoke_secret_hash, delay_time.value)

\* AbsScriptChannelDeposit.from_script, for the class whose TEMPLATE is given
DepositFromScript(TEMPLATE, script) ==
    LET r == match(TEMPLATE, script)
        expire_time == get_deposit_expire_time(TEMPLATE)
    IN  IF ~r.ok \/ (r.PUBKEY_LIST = << >> /\ r.PUBKEYHASH_LIST = << >>)
        THEN Raised("ValueError")
        ELSE IF Len(r.PUBKEY_LIST) < 4 \/ Len(r.PUBKEYHASH_LIST) < 1
        THEN Raised("IndexError")
        ELSE LET payer_sec == r.PUBKEY_LIST[1]
                 payee_sec == r.PUBKEY_LIST[2]
                 spend_secret_hash == b2h(r.PUBKEYHASH_LIST[1])
             IN  IF payer_sec # r.PUBKEY_LIST[3] \/ payer_sec # r.PUBKEY_LIST[4]
                 THEN Raised("AssertionError")
                 ELSE IF expire_time.err # "" THEN Raised(expire_time.err)
                 ELSE IF compile_deposit_script(
                             b2h(payer_sec), b2h(payee_sec),
                             spend_secret_hash, expire_time.value) # script
                 THEN Raised("AssertionError")
                 ELSE Decompiled("", payer_sec, payee_sec, spend_secret_hash,
                                 Hex(0, 0), expire_time.value)

\* CommitScriptHandler(delay_time): the TEMPLATE of its ScriptChannelCommit
CommitScriptHandler(delay_time) ==
    compile_deposit_script(Op("OP_PUBKEY"), Op("OP_PUBKEY"),
                           Op("OP_PUBKEYHASH"), delay_time)

\* DepositScriptHandler(expire_time): the TEMPLATE of its ScriptChannelDeposit
DepositScriptHandler(expire_time) ==
    compile_deposit_script(Op("OP_PUBKEY"), Op("OP_PUBKEY"),
                           Op("OP_PUBKEYHASH"), expire_time)

(***************************************************************************)
(* channel/base.py                                                         *)
(***************************************************************************)

\* bounds of the model
MaxActive == 3
MaxSecrets == 2

\* the transactions the oracle knows, and the quantity it reports for each
CommitTxs == {"c1", "c2", "c3"}
\* btctxstore.confirms of a transaction's id: the timeout transaction t1
\* and the change transaction x1 are confirmed, t0 and x0 are not yet;
\* the deposit d1 has six confirmations
confirms(rawtx) ==
    CASE rawtx = "t1" -> 1
      [] rawtx = "x1" -> 2
      [] rawtx = "d1" -> 6
      [] OTHER -> 0
\* c9 is a commit of more than the deposit d1 holds; a transaction that
\* moves nothing, like c0, has the quantity 0
get_quantity(rawtx) ==
    CASE rawtx = "c1" -> 300
      [] rawtx = "c2" -> 700
      [] rawtx = "c3" -> 700
      [] rawtx = "c9" -> 1200
      [] rawtx = "d1" -> 1000
      [] OTHER -> 0

\* revoke secrets, and util.hash160hex of each
Secrets == {"s1", "s2", "s3"}
hash160hex(secret) ==
    Hex(20, CASE secret = "s1" -> 101
              [] secret = "s2" -> 102
              [] secret = "s3" -> 103
              [] OTHER -> 100)

\* a script as the hex text a channel field holds, and util.h2b of it
ScriptHex(script) == [some |-> TRUE, hex |-> script]
NoScriptHex == [some |-> FALSE, hex |-> << >>]
util_h2b(script_hex) == script_hex.hex

PayerPubkey == Hex(33, 2)
PayeePubkey == Hex(33, 3)
SpendSecrets == {"zz"}

\* the entries a snapshot may hold: commit transactions with the commit
\* script that embeds the hash of the revoke secret
CommitEntry(rawtx, secret) ==
    [rawtx |-> rawtx,
     script |-> ScriptHex(compile_commit_script(
                    PayerPubkey, PayeePubkey, hash160hex("ss"),
                    hash160hex(secret), 5)),
     revoke_secret |-> None]

Entries == {CommitEntry("c1", "s1"), CommitEntry("c2", "s1"),
            CommitEntry("c2", "s2"), CommitEntry("c3", "s2")}

\* sequences of at most MaxActive entries with distinct transactions
RECURSIVE EntrySeqs(_)
EntrySeqs(n) ==
    IF n = 0 THEN {<< >>}
    ELSE LET shorter == EntrySeqs(n - 1)
         IN  shorter \cup
             {Append(q, e) : q \in {x \in shorter : Len(x) = n - 1},
                             e \in Entries} 

DistinctTx(q) ==
    \A i, j \in 1..Len(q) : i # j => q[i].rawtx # q[j].rawtx

\* a snapshot of a payer's or a payee's channel with its deposit, open or
\* with a closing transaction, and its active commits
SnapshotOf(role, closing, active) ==
    [payer_wif |-> IF role = "payer" THEN "wifA" ELSE None,
     payee_wif |-> IF role = "payee" THEN "wifB" ELSE None,
     spend_secret |-> IF role = "payee" THEN "ss" ELSE None,
     deposit_script_hex |-> ScriptHex(compile_deposit_script(
         PayerPubkey, PayeePubkey, hash160hex("ss"), 5)),
     deposit_rawtx |-> "d1",
     timeout_rawtx |-> IF closing \in {"t0", "t1"} THEN closing ELSE None,
     change_rawtx |-> IF closing \in {"x0", "x1"} THEN closing ELSE None,
     commits_requested |-> IF role = "payee" THEN <<hash160hex("s3")>>
                           ELSE << >>,
     commits_active |-> active,
     commits_revoked |-> << >>]

\* the snapshots load is given: every role and closing with two commits
\* stored highest first, and an open payer's channel with every list of
\* active commits
Snapshots ==
    {SnapshotOf(role, closing,
                <<CommitEntry("c3", "s2"), CommitEntry("c1", "s1")>>) :
        role \in {"payer", "payee"},
        closing \in {"none", "t0", "t1", "x0", "x1"}}
    \cup
    {SnapshotOf("payer", "none", active) :
        active \in {q \in EntrySeqs(MaxActive) : DistinctTx(q)}}

\* the lists of secrets revoke_all is given
RECURSIVE SecretSeqs(_)
SecretSeqs(n) ==
    IF n = 0 THEN {<< >>}
    ELSE LET shorter == SecretSeqs(n - 1)
         IN  shorter \cup
             {Append(q, s) : q \in {x \in shorter : Len(x) = n - 1},
                             s \in Secrets}

\* the quantities _validate_transfer_quantity is given
Quantities == {0, 500, 1000, 1001}

\* list.sort(key=sort_func): a stable sort by get_quantity of the rawtx
RECURSIVE insert_sorted(_, _)
insert_sorted(sorted, entry) ==
    IF sorted = << >> THEN <<entry>>
    ELSE LET n == Len(sorted)
         IN  IF get_quantity(sorted[n].rawtx) <= get_quantity(entry.rawtx)
             THEN Append(sorted, entry)
             ELSE Append(insert_sorted(SubSeq(sorted, 1, n - 1), entry),
                         sorted[n])

RECURSIVE sort_from(_, _, _)
sort_from(list, k, sorted) ==
    IF k > Len(list) THEN sorted
    ELSE sort_from(list, k + 1, insert_sorted(sorted, list[k]))

\* a sort that is left out
unordered_active(active) == active

_order_active(active) == sort_from(active, 1, << >>)

\* the channel's fields as the mapping save returns and load takes
Snapshot ==
    [payer_wif |-> payer_wif, payee_wif |-> payee_wif,
     spend_secret |-> spend_secret,
     deposit_script_hex |-> deposit_script_hex,
     deposit_rawtx |-> deposit_rawtx, timeout_rawtx |-> timeout_rawtx,
     change_rawtx |-> change_rawtx,
     commits_requested |-> commits_requested,
     commits_active |-> commits_active,
     commits_revoked |-> commits_revoked]

\* the class-level defaults, which are also what clear assigns
Cleared ==
    [payer_wif |-> None, payee_wif |-> None, spend_secret |-> None,
     deposit_script_hex |-> NoScriptHex, deposit_rawtx |-> None,
     timeout_rawtx |-> None, change_rawtx |-> None,
     commits_requested |-> << >>, commits_active |-> << >>,
     commits_revoked |-> << >>]

Assign(data) ==
    /\ payer_wif' = data.payer_wif
    /\ payee_wif' = data.payee_wif
    /\ spend_secret' = data.spend_secret
    /\ deposit_script_hex' = data.deposit_script_hex
    /\ deposit_rawtx' = data.deposit_rawtx
    /\ timeout_rawtx' = data.timeout_rawtx
    /\ change_rawtx' = data.change_rawtx
    /\ commits_requested' = data.commits_requested
    /\ commits_active' = data.commits_active
    /\ commits_revoked' = data.commits_revoked

\* how an operation ended: out is "ok" or the exception raised; arg and
\* ret are sequences (ret is << >> for None and when nothing is returned)
Ended(op, arg, out, ret) == [op |-> op, arg |-> arg, out |-> out, ret |-> ret]

\* An oracle lookup may fail.  fail names the lookup that does: 0 none,
\* 1 a quantity asked for by the sort of _order_active, 2 the quantity of
\* the last active commit, 3 the quantity of the deposit.
FailPoints == 0..3
SortFailPoints == 0..1
TransferredFailPoints == 0..2

\* save: the sort, then the deep copy of the fields
save(fail) ==
    IF fail = 1 /\ commits_active # << >>
    THEN [out |-> "OracleError", active |-> commits_active, ret |-> << >>]
    ELSE LET sorted == _order_active(commits_active)
         IN  [out |-> "ok", active |-> sorted,
              ret |-> <<[Snapshot EXCEPT !.commits_active = sorted]>>]

\* load: the fields are assigned, then the sort runs
load(data, fail) ==
    IF fail = 1 /\ data.commits_active # << >>
    THEN [out |-> "OracleError", data |-> data]
    ELSE [out |-> "ok",
          data |-> [data EXCEPT
                      !.commits_active = _order_active(data.commits_active)]]

\* the last entry taken without sorting first
get_transferred_amount_unsorted(active, fail) ==
    IF Len(active) = 0
    THEN [out |-> "ok", value |-> 0, active |-> active]
    ELSE IF fail \in {1, 2}
    THEN [out |-> "OracleError", value |-> 0, active |-> active]
    ELSE [out |-> "ok", value |-> get_quantity(active[Len(active)].rawtx),
          active |-> active]

\* the last entry popped off the list
get_transferred_amount_consuming(active, fail) ==
    IF Len(active) = 0 \/ fail # 0
    THEN [out |-> "ok", value |-> 0, active |-> active]
    ELSE LET sorted == _order_active(active)
         IN  [out |-> "ok", value |-> get_quantity(sorted[Len(sorted)].rawtx),
              active |-> SubSeq(sorted, 1, Len(sorted) - 1)]

get_transferred_amount(active, fail) ==
    IF Len(active) = 0
    THEN [out |-> "ok", value |-> 0, active |-> active]
    ELSE IF fail = 1
    THEN [out |-> "OracleError", value |-> 0, active |-> active]
    ELSE LET sorted == _order_active(active)
             commit == sorted[Len(sorted)]
         IN  IF fail = 2
             THEN [out |-> "OracleError", value |-> 0, active |-> sorted]
             ELSE [out |-> "ok", value |-> get_quantity(commit.rawtx),
                   active |-> sorted]

get_deposit_total(fail) ==
    IF deposit_rawtx = None THEN [out |-> "AssertionError", value |-> 0]
    ELSE IF fail = 3 THEN [out |-> "OracleError", value |-> 0]
    ELSE [out |-> "ok", value |-> get_quantity(deposit_rawtx)]

\* _validate_transfer_quantity: msg.fromat is no method of str, so the
\* second raise ends in an AttributeError
_validate_transfer_quantity(quantity, fail) ==
    LET transferred == get_transferred_amount(commits_active, fail)
        total == get_deposit_total(fail)
    IN  [active |-> transferred.active,
         out |-> IF transferred.out # "ok" THEN transferred.out
                 ELSE IF quantity <= transferred.value THEN "ValueError"
                 ELSE IF total.out # "ok" THEN total.out
                 ELSE IF quantity > total.value THEN "AttributeError"
                 ELSE "ok"]

\* list.remove: without the first element equal to x
RECURSIVE remove(_, _)
remove(list, x) ==
    IF list = << >> THEN << >>
    ELSE IF list[1] = x THEN Tail(list)
    ELSE <<list[1]>> \o remove(Tail(list), x)

\* revoke: the loop over the copy of commits_active, from position k on
RECURSIVE revoke_loop(_, _, _, _)
revoke_loop(active, revoked, secret, k) ==
    IF k > Len(active)
    THEN [out |-> "ok", active |-> active, revoked |-> revoked,
          ret |-> << >>]
    ELSE LET commit == active[k]
             script == util_h2b(commit.script)
             found == get_commit_revoke_secret_hash(script)
         IN  IF found.err # ""
             THEN [out |-> found.err, active |-> active,
                   revoked |-> revoked, ret |-> << >>]
             ELSE IF hash160hex(secret) = found.hex
             THEN LET moved == [commit EXCEPT !.revoke_secret = secret]
                  IN  [out |-> "ok", active |-> remove(active, commit),
                       revoked |-> Append(revoked, moved),
                       ret |-> <<moved>>]
             ELSE revoke_loop(active, revoked, secret, k + 1)

\* a revoke that copies the entry and leaves it active
revoke_copy(active, revoked, secret) ==
    [revoke_loop(active, revoked, secret, 1) EXCEPT !.active = active]

\* a revoke that looks at the highest active entry only
revoke_current_only(active, revoked, secret) ==
    revoke_loop(active, revoked, secret,
                IF active = << >> THEN 1 ELSE Len(active))

revoke(active, revoked, secret) == revoke_loop(active, revoked, secret, 1)

\* revoke_all: list(map(self.revoke, secrets)); an exception ends the map
RECURSIVE revoke_all(_, _, _, _)
revoke_all(active, revoked, secrets, rets) ==
    IF secrets = << >>
    THEN [out |-> "ok", active |-> active, revoked |-> revoked,
          ret |-> rets]
    ELSE LET r == revoke(active, revoked, Head(secrets))
         IN  IF r.out # "ok"
             THEN [r EXCEPT !.ret = << >>]
             ELSE revoke_all(r.active, r.revoked, Tail(secrets),
                             Append(rets, r.ret))

\* is_timeout_confirmed, is_change_confirmed, is_closed (the oracle answers)
is_timeout_confirmed == confirms(timeout_rawtx) # 0
is_change_confirmed == confirms(change_rawtx) # 0
is_closed ==
    \/ change_rawtx # None /\ is_change_confirmed
    \/ timeout_rawtx # None /\ is_timeout_confirmed

(***************************************************************************)
(* One caller: the public operations of a channel, one after the other     *)
(***************************************************************************)

NoThreads == UNCHANGED <<thread, mutex, heap>>
NoReplay == [first |-> 0, matching |-> 0, again |-> FALSE]

\* the positions of the active entries whose script embeds hash160(secret)
Matching(active, secret) ==
    {i \in 1..Len(active) :
        get_commit_revoke_secret_hash(util_h2b(active[i].script)).hex
            = hash160hex(secret)}

Load(data, fail) ==
    LET r == load(data, fail)
    IN  /\ Assign(r.data)
        /\ last' = Ended("load", << >>, r.out, << >>)
        /\ replayed' = NoReplay
        /\ UNCHANGED <<sc>>
        /\ NoThreads

Save(fail) ==
    LET r == save(fail)
    IN  /\ commits_active' = r.active
        /\ last' = Ended("save", << >>, r.out, r.ret)
        /\ replayed' = NoReplay
        /\ UNCHANGED <<payer_wif, payee_wif, spend_secret,
                       deposit_script_hex, deposit_rawtx, timeout_rawtx,
                       change_rawtx, commits_requested, commits_revoked,
                       sc>>
        /\ NoThreads

Clear ==
    /\ Assign(Cleared)
    /\ last' = Ended("clear", << >>, "ok", << >>)
    /\ replayed' = NoReplay
    /\ UNCHANGED <<sc>>
    /\ NoThreads

SetSpendSecret(secret) ==
    /\ spend_secret' = secret
    /\ last' = Ended("set_spend_secret", <<secret>>, "ok", << >>)
    /\ replayed' = NoReplay
    /\ UNCHANGED <<payer_wif, payee_wif, deposit_script_hex, deposit_rawtx,
                   timeout_rawtx, change_rawtx, commits_requested,
                   commits_active, commits_revoked, sc>>
    /\ NoThreads

Revoke(secret) ==
    LET r == revoke(commits_active, commits_revoked, secret)
    IN  /\ commits_active' = r.active
        /\ commits_revoked' = r.revoked
        /\ last' = Ended("revoke", <<secret>>, r.out, r.ret)
        /\ replayed' =
             [first |-> IF /\ last.op = "revoke"
                           /\ last.arg = <<secret>>
                           /\ last.ret # << >>
                        THEN replayed.matching ELSE 0,
              matching |-> Cardinality(Matching(commits_active, secret)),
              again |-> FALSE]
        /\ UNCHANGED <<payer_wif, payee_wif, spend_secret,
                       deposit_script_hex, deposit_rawtx, timeout_rawtx,
                       change_rawtx, commits_requested, sc>>
        /\ NoThreads

RevokeAll(secrets) ==
    LET r == revoke_all(commits_active, commits_revoked, secrets, << >>)
    IN  /\ commits_active' = r.active
        /\ commits_revoked' = r.revoked
        /\ last' = Ended("revoke_all", secrets, r.out, r.ret)
        /\ replayed' = NoReplay
        /\ UNCHANGED <<payer_wif, payee_wif, spend_secret,
                       deposit_script_hex, deposit_rawtx, timeout_rawtx,
                       change_rawtx, commits_requested, sc>>
        /\ NoThreads

GetTransferredAmount(fail) ==
    LET r == get_transferred_amount(commits_active, fail)
    IN  /\ commits_active' = r.active
        /\ last' = Ended("get_transferred_amount", << >>, r.out,
                         IF r.out = "ok" THEN <<r.value>> ELSE << >>)
        /\ replayed' = NoReplay
        /\ UNCHANGED <<payer_wif, payee_wif, spend_secret,
                       deposit_script_hex, deposit_rawtx, timeout_rawtx,
                       change_rawtx, commits_requested, commits_revoked,
                       sc>>
        /\ NoThreads

ValidateTransferQuantity(quantity, fail) ==
    LET r == _validate_transfer_quantity(quantity, fail)
    IN  /\ commits_active' = r.active
        /\ last' = Ended("_validate_transfer_quantity", <<quantity>>, r.out,
                         << >>)
        /\ replayed' = NoReplay
        /\ UNCHANGED <<payer_wif, payee_wif, spend_secret,
                       deposit_script_hex, deposit_rawtx, timeout_rawtx,
                       change_rawtx, commits_requested, commits_revoked,
                       sc>>
        /\ NoThreads

(***************************************************************************)
(* Objects.  A list is an object on the heap, named by a reference; the    *)
(* class Base holds the defaults of its attributes, three lists among      *)
(* them, and an instance holds the attributes that were assigned on it.    *)
(***************************************************************************)

\* the lists the heap has room for
MaxLists == 15
Refs == 1..MaxLists

Instances == {"A", "B"}
ListFields == {"commits_requested", "commits_active", "commits_revoked"}
FieldOrder ==
    <<"payer_wif", "payee_wif", "spend_secret", "deposit_script_hex",
      "deposit_rawtx", "timeout_rawtx", "change_rawtx", "commits_requested",
      "commits_active", "commits_revoked">>

\* no snapshot in the caller's hands
NoHeld == [kind |-> "none", obj |-> Cleared, taken |-> Cleared]

\* the class body of Base: the three list literals are three lists
HeapInit ==
    [store |-> [r \in Refs |-> << >>],
     class |-> [Cleared EXCEPT !.commits_requested = 1,
                               !.commits_active = 2,
                               !.commits_revoked = 3],
     dict |-> [i \in Instances |-> << >>],
     held |-> NoHeld,
     op |-> [name |-> "__init__", inst |-> ""]]

NumThreads == 2
Threads == 1..NumThreads
IdleThread ==
    [pc |-> "idle", op |-> "", secrets |-> << >>, data |-> Cleared,
     began |-> FALSE, interleaved |-> FALSE]

ScIdle ==
    [phase |-> "idle", kind |-> "", via |-> "",
     params |-> [payer_pubkey |-> Hex(0, 0), payee_pubkey |-> Hex(0, 0),
                 spend_secret_hash |-> Hex(0, 0),
                 revoke_secret_hash |-> Hex(0, 0), time |-> 0],
     script |-> << >>, result |-> Raised("")]

\* Base.__init__ and the class-level defaults
Init ==
    /\ payer_wif = None
    /\ payee_wif = None
    /\ spend_secret = None
    /\ deposit_script_hex = NoScriptHex
    /\ deposit_rawtx = None
    /\ timeout_rawtx = None
    /\ change_rawtx = None
    /\ commits_requested = << >>
    /\ commits_active = << >>
    /\ commits_revoked = << >>
    /\ last = Ended("__init__", << >>, "ok", << >>)
    /\ replayed = NoReplay
    /\ thread = [t \in Threads |-> IdleThread]
    /\ mutex = [owner |-> 0, count |-> 0]
    /\ sc = ScIdle
    /\ heap = HeapInit

Next ==
    \/ \E data \in Snapshots, fail \in SortFailPoints : Load(data, fail)
    \/ \E fail \in SortFailPoints : Save(fail)
    \/ Clear
    \/ \E secret \in SpendSecrets : SetSpendSecret(secret)
    \/ \E secret \in Secrets : Revoke(secret)
    \/ \E secrets \in SecretSeqs(MaxSecrets) : RevokeAll(secrets)
    \/ \E fail \in TransferredFailPoints : GetTransferredAmount(fail)
    \/ \E quantity \in Quantities, fail \in FailPoints :
           ValidateTransferQuantity(quantity, fail)

Spec == Init /\ [][Next]_vars

\* the same operations with an oracle that answers every lookup
NextOracleUp ==
    \/ \E data \in Snapshots : Load(data, 0)
    \/ Save(0)
    \/ Clear
    \/ \E secret \in SpendSecrets : SetSpendSecret(secret)
    \/ \E secret \in Secrets : Revoke(secret)
    \/ \E secrets \in SecretSeqs(MaxSecrets) : RevokeAll(secrets)
    \/ GetTransferredAmount(0)
    \/ \E quantity \in Quantities : ValidateTransferQuantity(quantity, 0)

SpecOracleUp == Init /\ [][NextOracleUp]_vars

(***************************************************************************)
(* Properties of the channel state engine                                  *)
(***************************************************************************)

Quantity(entry) == get_quantity(entry.rawtx)

Sorted(active) ==
    \A i \in 1..(Len(active) - 1) : Quantity(active[i]) <= Quantity(active[i + 1])

\* the highest quantity the oracle reports for an entry of active
MaxQuantity(active) ==
    CHOOSE m \in {Quantity(active[i]) : i \in 1..Len(active)} :
        \A i \in 1..Len(active) : Quantity(active[i]) <= m

\* the list without its element at position i
Without(list, i) == SubSeq(list, 1, i - 1) \o SubSeq(list, i + 1, Len(list))

SameCommit(a, b) == a.rawtx = b.rawtx /\ a.script = b.script

C2_ValidateTransferQuantity ==
    (/\ last.op = "_validate_transfer_quantity"
     /\ last.out # "OracleError"
     /\ deposit_rawtx # None)
        => LET q == last.arg[1]
               transferred == IF commits_active = << >> THEN 0
                              ELSE MaxQuantity(commits_active)
               total == get_quantity(deposit_rawtx)
           IN  IF q <= transferred \/ q > total
               THEN last.out = "ValueError"
               ELSE last.out = "ok"

\* C3: get_transferred_amount returns 0 when commits_active is empty and
\* otherwise the highest quantity of its entries, in whatever order the
\* entries were stored.
C3_TransferredIsMax ==
    (last.op = "get_transferred_amount" /\ last.out = "ok")
        => last.ret = <<IF commits_active = << >> THEN 0
                        ELSE MaxQuantity(commits_active)>>

\* the amount of a channel that holds the 300 and a 700 commit was asked
C3_Witness ==
    /\ last.op = "get_transferred_amount"
    /\ last.ret = <<700>>
    /\ Len(commits_active) >= 2
    /\ Quantity(commits_active[1]) = 300

\* C4 as claimed: when revoke(s) returns an entry, the revoke(s) right
\* after it returns None and leaves commits_active and commits_revoked
\* as they are.
C4_ReplayIsAbsent ==
    [][replayed'.first > 0
         => (/\ last'.ret = << >>
             /\ UNCHANGED <<commits_active, commits_revoked>>)]_vars

\* C4 as amended: the same, when the entry the first revoke(s) returned was
\* the only active entry that embedded hash160(s).
C4_ReplayIsAbsentWhenUnique ==
    [][replayed'.first = 1
         => (/\ last'.ret = << >>
             /\ UNCHANGED <<commits_active, commits_revoked>>)]_vars

\* revoke(s) has been replayed after it moved the only entry with that hash
C4_Witness ==
    /\ replayed.first = 1
    /\ last.op = "revoke"
    /\ last.ret = << >>
    /\ \E i \in 1..Len(commits_revoked) :
           commits_revoked[i].revoke_secret = last.arg[1]

\* C5: revoke(s) moves the first active entry that embeds hash160(s): it
\* leaves commits_active, is appended to commits_revoked with
\* revoke_secret = s and is returned, the two lists keep their total
\* length and every other field its value; with no such entry revoke
\* returns None and no field changes.  No commit is in both lists.
C5_RevokeIsMove ==
    /\ [][last'.op = "revoke"
            => LET s == last'.arg[1]
                   M == Matching(commits_active, s)
               IN  /\ last'.out = "ok"
                   /\ UNCHANGED <<payer_wif, payee_wif, spend_secret,
                                  deposit_script_hex, deposit_rawtx,
                                  timeout_rawtx, change_rawtx,
                                  commits_requested>>
                   /\ IF M = {}
                      THEN /\ last'.ret = << >>
                           /\ UNCHANGED <<commits_active, commits_revoked>>
                      ELSE \E i \in M :
                             LET moved == [commits_active[i] EXCEPT
                                             !.revoke_secret = s]
                             IN  /\ \A j \in M : i <= j
                                 /\ commits_active' = Without(commits_active, i)
                                 /\ commits_revoked' =
                                        Append(commits_revoked, moved)
                                 /\ last'.ret = <<moved>>
                                 /\ Len(commits_active') + Len(commits_revoked')
                                      = Len(commits_active) + Len(commits_revoked)
          ]_vars
    /\ [](\A i \in 1..Len(commits_active), j \in 1..Len(commits_revoked) :
              ~SameCommit(commits_active[i], commits_revoked[j]))

\* a revoke has moved one of several active entries
C5_Witness ==
    /\ last.op = "revoke"
    /\ last.ret # << >>
    /\ commits_revoked # << >>
    /\ commits_revoked[Len(commits_revoked)] = last.ret[1]
    /\ commits_active # << >>

\* C6 as claimed: revoke returns an entry only for the secret of the
\* current commit, the one of the highest quantity: no commit of a higher
\* quantity is active beside the entry a revoke returns.
C6_OnlyCurrentRevocable ==
    (last.op = "revoke" /\ last.ret # << >>)
        => \A i \in 1..Len(commits_active) :
               Quantity(commits_active[i]) <= Quantity(last.ret[1])

\* C6 as amended: revoke(s) returns an entry exactly when some active
\* entry, of whatever quantity, embeds hash160(s), and then it is such an
\* entry, the first of them in the list; a superseded commit stays active
\* and revocable.
C6_AnyActiveRevocable ==
    [][(last'.op = "revoke" /\ last'.out = "ok")
         => LET M == Matching(commits_active, last'.arg[1])
            IN  /\ (last'.ret # << >>) <=> (M # {})
                /\ M # {} =>
                     \E i \in M :
                        /\ \A j \in M : i <= j
                        /\ SameCommit(last'.ret[1], commits_active[i])
       ]_vars

\* the secret of the 300 commit was revoked while a 700 commit is active
C6_Witness ==
    /\ last.op = "revoke"
    /\ last.ret # << >>
    /\ Quantity(last.ret[1]) = 300
    /\ \E i \in 1..Len(commits_active) : Quantity(commits_active[i]) = 700

\* C7: once the channel is closed no operation changes a persistent field.
C7_ClosedImmutable ==
    [][is_closed => UNCHANGED fields]_vars

\* C8: an operation that ends with an oracle lookup failing leaves every
\* persistent field with the value it had when the operation began.
C8_OracleFailureKeepsFields ==
    [][last'.out = "OracleError" => UNCHANGED fields]_vars

(***************************************************************************)
(* Threads: callers of one channel, each inside `with self.mutex` while it *)
(* runs the body of a locked method                                        *)
(***************************************************************************)

NoCaller == UNCHANGED <<last, replayed, sc, heap>>

\* what the threads call with
ThreadSnapshots ==
    {SnapshotOf("payer", "none",
                <<CommitEntry("c1", "s1"), CommitEntry("c3", "s2")>>)}
ThreadSecrets == {"s1", "s2"}
ThreadSecretSeqs ==
    {q \in SecretSeqs(MaxSecrets) :
        Len(q) = MaxSecrets /\ \A i \in 1..Len(q) : q[i] \in ThreadSecrets}

Called(op, data, secrets) ==
    [pc |-> IF op = "revoke_all" THEN "map" ELSE "acquire", op |-> op,
     secrets |-> secrets, data |-> data, began |-> FALSE,
     interleaved |-> FALSE]

\* a thread calls load, clear, revoke or revoke_all
T_Call(t, op, data, secrets) ==
    /\ thread[t].pc = "idle"
    /\ thread' = [thread EXCEPT ![t] = Called(op, data, secrets)]
    /\ UNCHANGED <<payer_wif, payee_wif, spend_secret, deposit_script_hex,
                   deposit_rawtx, timeout_rawtx, change_rawtx,
                   commits_requested, commits_active, commits_revoked, mutex>>
    /\ NoCaller

\* revoke_all's map: self.revoke of the next secret, or the list is returned
T_Map(t) ==
    /\ thread[t].pc = "map"
    /\ thread' = [thread EXCEPT ![t] =
                     IF thread[t].secrets = << >> THEN IdleThread
                     ELSE [@ EXCEPT !.pc = "acquire"]]
    /\ UNCHANGED <<payer_wif, payee_wif, spend_secret, deposit_script_hex,
                   deposit_rawtx, timeout_rawtx, change_rawtx,
                   commits_requested, commits_active, commits_revoked, mutex>>
    /\ NoCaller

\* with self.mutex: the RLock is free, or held by the thread itself
T_Acquire(t) ==
    /\ thread[t].pc = "acquire"
    /\ mutex.owner \in {0, t}
    /\ mutex' = [owner |-> t, count |-> mutex.count + 1]
    /\ thread' = [thread EXCEPT ![t].pc = "body", ![t].began = TRUE]
    /\ UNCHANGED <<payer_wif, payee_wif, spend_secret, deposit_script_hex,
                   deposit_rawtx, timeout_rawtx, change_rawtx,
                   commits_requested, commits_active, commits_revoked>>
    /\ NoCaller

\* the body of load, clear or revoke, run by the holder of the mutex; it
\* takes effect while every other thread that has begun an operation and
\* not ended it is in the middle of that operation
T_Body(t) ==
    /\ thread[t].pc = "body"
    /\ mutex.owner = t
    /\ CASE thread[t].op = "load" -> Assign(load(thread[t].data, 0).data)
         [] thread[t].op = "clear" -> Assign(Cleared)
         [] OTHER ->
              LET r == revoke(commits_active, commits_revoked,
                              Head(thread[t].secrets))
              IN  /\ commits_active' = r.active
                  /\ commits_revoked' = r.revoked
                  /\ UNCHANGED <<payer_wif, payee_wif, spend_secret,
                                 deposit_script_hex, deposit_rawtx,
                                 timeout_rawtx, change_rawtx,
                                 commits_requested>>
    /\ thread' = [u \in Threads |->
                    IF u = t THEN [thread[u] EXCEPT !.pc = "release"]
                    ELSE IF thread[u].began
                         THEN [thread[u] EXCEPT !.interleaved = TRUE]
                         ELSE thread[u]]
    /\ UNCHANGED mutex
    /\ NoCaller

\* the with block is left: the mutex is released, revoke_all goes on with
\* the rest of its list, any other operation has ended
T_Release(t) ==
    /\ thread[t].pc = "release"
    /\ mutex' = [owner |-> IF mutex.count = 1 THEN 0 ELSE mutex.owner,
                 count |-> mutex.count - 1]
    /\ thread' = [thread EXCEPT ![t] =
                     IF thread[t].op = "revoke_all"
                     THEN [@ EXCEPT !.pc = "map", !.secrets = Tail(@)]
                     ELSE IdleThread]
    /\ UNCHANGED <<payer_wif, payee_wif, spend_secret, deposit_script_hex,
                   deposit_rawtx, timeout_rawtx, change_rawtx,
                   commits_requested, commits_active, commits_revoked>>
    /\ NoCaller

NextThreads ==
    \E t \in Threads :
        \/ \E data \in ThreadSnapshots : T_Call(t, "load", data, << >>)
        \/ T_Call(t, "clear", Cleared, << >>)
        \/ \E secret \in ThreadSecrets :
               T_Call(t, "revoke", Cleared, <<secret>>)
        \/ \E secrets \in ThreadSecretSeqs :
               T_Call(t, "revoke_all", Cleared, secrets)
        \/ T_Map(t)
        \/ T_Acquire(t)
        \/ T_Body(t)
        \/ T_Release(t)

SpecThreads == Init /\ [][NextThreads]_vars

\* C9: every public operation, revoke_all over its whole list included, is
\* one critical section: from its first step to its last no other thread's
\* operation takes effect on the channel.
C9_OperationsAtomic ==
    \A t \in Threads : ~thread[t].interleaved

\* the lock-protected methods do run as critical sections
MutexExcludes ==
    \A t, u \in Threads :
        (t # u /\ thread[t].pc \in {"body", "release"})
            => thread[u].pc \notin {"body", "release"}

(***************************************************************************)
(* The script engine's caller: a template is compiled from parameters,     *)
(* then decompiled through its handler's class or read by the getters      *)
(***************************************************************************)

NoChannel ==
    UNCHANGED <<payer_wif, payee_wif, spend_secret, deposit_script_hex,
                deposit_rawtx, timeout_rawtx, change_rawtx, commits_requested,
                commits_active, commits_revoked, last, replayed, thread,
                mutex, heap>>

\* parameters: compressed public keys, hash160 digests, timelocks
PubKeys == {Hex(33, 2), Hex(33, 3)}
Hashes == {Hex(20, 100), Hex(20, 101)}
Timelocks == {0, 5, 16, 17, 80, 1000}

Params(payer_pubkey, payee_pubkey, spend_secret_hash, revoke_secret_hash, time) ==
    [payer_pubkey |-> payer_pubkey, payee_pubkey |-> payee_pubkey,
     spend_secret_hash |-> spend_secret_hash,
     revoke_secret_hash |-> revoke_secret_hash, time |-> time]

\* the positional getters of a deposit script, together
DepositGetters(script) ==
    LET payer == get_deposit_payer_pubkey(script)
        payee == get_deposit_payee_pubkey(script)
        hash == get_deposit_spend_secret_hash(script)
        time == get_deposit_expire_time(script)
    IN  IF payer.err # "" THEN Raised(payer.err)
        ELSE IF payee.err # "" THEN Raised(payee.err)
        ELSE IF hash.err # "" THEN Raised(hash.err)
        ELSE IF time.err # "" THEN Raised(time.err)
        ELSE Decompiled("", h2b(payer.hex), h2b(payee.hex), hash.hex,
                        Hex(0, 0), time.value)

\* the positional getters of a commit script, together
CommitGetters(script) ==
    LET payer == get_commit_payer_pubkey(script)
        payee == get_commit_payee_pubkey(script)
        hash == get_commit_spend_secret_hash(script)
        revoke_hash == get_commit_revoke_secret_hash(script)
        time == get_commit_delay_time(script)
    IN  IF payer.err # "" THEN Raised(payer.err)
        ELSE IF payee.err # "" THEN Raised(payee.err)
        ELSE IF hash.err # "" THEN Raised(hash.err)
        ELSE IF revoke_hash.err # "" THEN Raised(revoke_hash.err)
        ELSE IF time.err # "" THEN Raised(time.err)
        ELSE Decompiled("", h2b(payer.hex), h2b(payee.hex), hash.hex,
                        revoke_hash.hex, time.value)

CompileDeposit(payer_pubkey, payee_pubkey, spend_secret_hash, expire_time) ==
    /\ sc.phase = "idle"
    /\ sc' = [sc EXCEPT
                !.phase = "compiled", !.kind = "deposit",
                !.params = Params(payer_pubkey, payee_pubkey,
                                  spend_secret_hash, Hex(0, 0), expire_time),
                !.script = compile_deposit_script(
                               payer_pubkey, payee_pubkey, spend_secret_hash,
                               expire_time)]
    /\ NoChannel

CompileCommit(payer_pubkey, payee_pubkey, spend_secret_hash, revoke_secret_hash, delay_time) ==
    /\ sc.phase = "idle"
    /\ sc' = [sc EXCEPT
                !.phase = "compiled", !.kind = "commit",
                !.params = Params(payer_pubkey, payee_pubkey,
                                  spend_secret_hash, revoke_secret_hash,
                                  delay_time),
                !.script = compile_commit_script(
                               payer_pubkey, payee_pubkey, spend_secret_hash,
                               revoke_secret_hash, delay_time)]
    /\ NoChannel

\* from_script of the class the handler for the script's timelock registers
FromScript ==
    /\ sc.phase = "compiled"
    /\ sc' = [sc EXCEPT
                !.phase = "decompiled", !.via = "from_script",
                !.result =
                    IF sc.kind = "deposit"
                    THEN DepositFromScript(
                             DepositScriptHandler(sc.params.time), sc.script)
                    ELSE CommitFromScript(
                             CommitScriptHandler(sc.params.time), sc.script)]
    /\ NoChannel

Getters ==
    /\ sc.phase = "compiled"
    /\ sc' = [sc EXCEPT
                !.phase = "decompiled", !.via = "getters",
                !.result = IF sc.kind = "deposit"
                           THEN DepositGetters(sc.script)
                           ELSE CommitGetters(sc.script)]
    /\ NoChannel

Forget ==
    /\ sc.phase = "decompiled"
    /\ sc' = ScIdle
    /\ NoChannel

NextScripts ==
    \/ \E payer_pubkey \in PubKeys, payee_pubkey \in PubKeys,
          spend_secret_hash \in Hashes, expire_time \in Timelocks :
           CompileDeposit(payer_pubkey, payee_pubkey, spend_secret_hash,
                          expire_time)
    \/ \E payer_pubkey \in PubKeys, payee_pubkey \in PubKeys,
          spend_secret_hash \in Hashes, revoke_secret_hash \in Hashes,
          delay_time \in Timelocks :
           CompileCommit(payer_pubkey, payee_pubkey, spend_secret_hash,
                         revoke_secret_hash, delay_time)
    \/ FromScript
    \/ Getters
    \/ Forget

SpecScripts == Init /\ [][NextScripts]_vars

\* what was decompiled is what was compiled
RoundTrip ==
    /\ sc.result.err = ""
    /\ b2h(sc.result.payer_sec) = sc.params.payer_pubkey
    /\ b2h(sc.result.payee_sec) = sc.params.payee_pubkey
    /\ sc.result.spend_secret_hash = sc.params.spend_secret_hash
    /\ sc.result.revoke_secret_hash = sc.params.revoke_secret_hash
    /\ sc.result.time = sc.params.time

\* C10: for both templates and every valid parameter set, from_script
\* through the template's handler and the positional getters return
\* exactly the keys, hashes and timelock that were compiled.
C10_RoundTrip ==
    sc.phase = "decompiled" => RoundTrip

\* the same for timelocks that have an opcode of their own (0..16)
RoundTripDepositSmallTimelock ==
    (sc.phase = "decompiled" /\ sc.params.time <= 16 /\ sc.kind = "deposit")
        => RoundTrip
RoundTripGettersSmallTimelock ==
    (sc.phase = "decompiled" /\ sc.params.time <= 16 /\ sc.via = "getters")
        => RoundTrip

(***************************************************************************)
(* parse_sequence_value on the words a script can hold                     *)
(***************************************************************************)

\* the longest pushed data of the words parsed
MaxPush == 3

\* the values of pushed data of len bytes: the lowest and highest, and the
\* ones around the top bit of the last byte and around MAX_SEQUENCE
PushedValues(len) ==
    {v \in {0, 1, pow2(8 * len - 1) - 1, pow2(8 * len - 1),
            pow2(8 * len) - 1, MAX_SEQUENCE, MAX_SEQUENCE + 1} :
        v < pow2(8 * len)}

\* the words tools.get_opcode yields: an opcode below 76 pushes that many
\* bytes, any other opcode here comes without data
SequenceWords ==
    {Word(opcode, 0, 0) : opcode \in {0} \cup 76..255}
    \cup UNION {{Word(len, len, v) : v \in PushedValues(len)} :
                   len \in 1..MaxPush}

ParseSequenceValue(word) ==
    /\ sc.phase = "idle"
    /\ sc' = [phase |-> "parsed", word |-> word,
              result |-> parse_sequence_value(word)]
    /\ NoChannel

ForgetParsed ==
    /\ sc.phase = "parsed"
    /\ sc' = ScIdle
    /\ NoChannel

NextSequence ==
    \/ \E word \in SequenceWords : ParseSequenceValue(word)
    \/ ForgetParsed

SpecSequence == Init /\ [][NextSequence]_vars

\* what the word is read as when its pushed bytes are one unsigned
\* little-endian integer
ReadUnsigned(word) ==
    LET opcode == word.op
    IN  IF opcode = 0 THEN [err |-> "", value |-> 0]
        ELSE IF opcode \in 81..96 THEN [err |-> "", value |-> opcode - 80]
        ELSE IF opcode \in 1..75 /\ word.val <= MAX_SEQUENCE
        THEN [err |-> "", value |-> word.val]
        ELSE [err |-> "ValueError", value |-> 0]

\* the top bit of the last pushed byte is clear
TopBitClear(word) == word.len = 0 \/ word.val < pow2(8 * word.len - 1)

\* C11: parse_sequence_value gives 0 for opcode 0, 1..16 for the opcodes
\* OP_1..OP_16, the little-endian integer of the pushed bytes for a direct
\* push (1..75), fails on every other opcode and on every value above
\* 0xFFFF: a pushed ff ff is read as 0xFFFF, a pushed 00 00 01 is rejected.
C11_ParseSequenceValue ==
    sc.phase = "parsed" => sc.result = ReadUnsigned(sc.word)

\* the same for the words whose last pushed byte has its top bit clear
ParseSequenceValueTopBitClear ==
    (sc.phase = "parsed" /\ TopBitClear(sc.word))
        => sc.result = ReadUnsigned(sc.word)

(***************************************************************************)
(* AbsScriptChannelDeposit.solve_finalize_commit.  A signature blob is     *)
(* data whose value names the key that signed, the value signed and the    *)
(* signature type; a blob that is no DER signature has the value 0.        *)
(***************************************************************************)

\* the keys: the payer's, the payee's and two strangers'; a key's number
\* stands for its secret exponent, its public pair and its sec bytes
Keys == {2, 3, 4, 5}
SignValues == {1, 2}
SignatureTypes == {1, 2}
SigLen == 72

\* _create_script_signature: the blob of a signature by secret_exponent
create_script_signature(secret_exponent, sign_value, signature_type) ==
    [len |-> SigLen,
     val |-> 100 * secret_exponent + 10 * sign_value + signature_type]

\* parse_signature_blob: the signature pair and the type, or UnexpectedDER
parse_signature_blob(blob) ==
    IF blob.len # SigLen \/ blob.val = 0
    THEN [err |-> "UnexpectedDER", sig_pair |-> [key |-> 0, value |-> 0],
          signature_type |-> 0]
    ELSE [err |-> "",
          sig_pair |-> [key |-> blob.val \div 100,
                        value |-> (blob.val \div 10) % 10],
          signature_type |-> blob.val % 10]

\* encoding.sec_to_public_pair
sec_to_public_pair(sec) ==
    IF sec.len = 33 THEN [err |-> "", public_pair |-> sec.val]
    ELSE [err |-> "EncodingError", public_pair |-> 0]

\* a verification that accepts every signature
verify_any(public_pair, sign_value, sig_pair) == TRUE

\* ecdsa.verify: the pair is a signature of the value by the key
ecdsa_verify(public_pair, sign_value, sig_pair) ==
    sig_pair.key = public_pair /\ sig_pair.value = sign_value

\* what a solve method gives: the error raised, or the compiled witness
Solved(err, script) == [err |-> err, script |-> script]

\* solve_finalize_commit of a deposit object; hash160_lookup is the set
\* of keys whose private key the caller holds
solve_finalize_commit(payer_sec, payee_sec, hash160_lookup, sign_value, existing_script) ==
    IF Len(existing_script) < 2 THEN Solved("IndexError", << >>)
    ELSE LET payer_sig == h2b(b2h(existing_script[2]))
             parsed == parse_signature_blob(payer_sig)
             pair == sec_to_public_pair(payer_sec)
         IN  IF parsed.err # "" THEN Solved(parsed.err, << >>)
             ELSE IF pair.err # "" THEN Solved("Exception", << >>)
             ELSE IF ~ecdsa_verify(pair.public_pair, sign_value,
                                   parsed.sig_pair)
             THEN Solved("Exception", << >>)
             ELSE IF payee_sec.val \notin hash160_lookup
             THEN Solved("TypeError", << >>)
             ELSE LET payee_sig == create_script_signature(
                          payee_sec.val, sign_value, parsed.signature_type)
                  IN  Solved("", compile(<<Op("OP_0"), b2h(payer_sig),
                                           b2h(payee_sig), Op("OP_1")>>))

\* the witnesses handed in: what solve_create_commit builds, signed by
\* any key over any value, or carrying a blob that is not a signature
SigBlobs ==
    {create_script_signature(k, v, t) :
        k \in Keys, v \in SignValues, t \in SignatureTypes}
    \cup {[len |-> SigLen, val |-> 0]}

ExistingScripts ==
    {compile(<<first, b2h(sig), Hex(SigLen, 0), Op("OP_1")>>) :
        first \in {Op("OP_0"), Op("OP_1")}, sig \in SigBlobs}

SolveFinalizeCommit(hash160_lookup, sign_value, existing_script) ==
    /\ sc.phase = "idle"
    /\ sc' = [phase |-> "finalized", existing_script |-> existing_script,
              sign_value |-> sign_value, hash160_lookup |-> hash160_lookup,
              result |-> solve_finalize_commit(
                             h2b(PayerPubkey), h2b(PayeePubkey),
                             hash160_lookup, sign_value, existing_script)]
    /\ NoChannel

ForgetFinalized ==
    /\ sc.phase = "finalized"
    /\ sc' = ScIdle
    /\ NoChannel

NextFinalize ==
    \/ \E hash160_lookup \in {{PayeePubkey.val}, {}},
          sign_value \in SignValues,
          existing_script \in ExistingScripts :
           SolveFinalizeCommit(hash160_lookup, sign_value, existing_script)
    \/ ForgetFinalized

SpecFinalize == Init /\ [][NextFinalize]_vars

\* the payer signature of the witness handed in
PayerSigOf(existing_script) ==
    parse_signature_blob(h2b(b2h(existing_script[2])))

\* it is a signature by the payer's key of the value to sign
PayerSigVerifies ==
    /\ PayerSigOf(sc.existing_script).err = ""
    /\ PayerSigOf(sc.existing_script).sig_pair.key = PayerPubkey.val
    /\ PayerSigOf(sc.existing_script).sig_pair.value = sc.sign_value

\* the result carries a signature by the payee's key
HasPayeeSig ==
    \E i \in 1..Len(sc.result.script) :
        LET parsed == parse_signature_blob(h2b(b2h(sc.result.script[i])))
        IN  parsed.err = "" /\ parsed.sig_pair.key = PayeePubkey.val

\* C12: solve_finalize_commit returns a witness with the payee's signature
\* only if the payer signature of the existing witness verifies against the
\* payer public key and the sign value; when it does not verify the call
\* fails and no payee signature is made.
C12_FinalizeVerifiesPayer ==
    sc.phase = "finalized" =>
        /\ (sc.result.err = "" \/ HasPayeeSig) => PayerSigVerifies
        /\ ~PayerSigVerifies =>
               sc.result.err # "" /\ sc.result.script = << >>
        /\ sc.result.err = "" =>
               /\ HasPayeeSig
               /\ sc.result.script[2] = sc.existing_script[2]

\* a well-formed payer signature by a stranger's key was turned down
C12_Witness ==
    /\ sc.phase = "finalized"
    /\ PayerSigOf(sc.existing_script).err = ""
    /\ PayerSigOf(sc.existing_script).sig_pair.key = 4
    /\ PayerSigOf(sc.existing_script).sig_pair.value = sc.sign_value
    /\ sc.result.err = "Exception"

\* a payer signature that verifies was countersigned
FinalizeCountersigned ==
    sc.phase = "finalized" /\ PayerSigVerifies /\ sc.result.err = ""

(***************************************************************************)
(* The read operations of a channel (base.py 106-201), on channels with    *)
(* every combination of closing transactions, the oracle answering         *)
(***************************************************************************)

get_confirms(rawtx) == confirms(rawtx)

get_deposit_confirms ==
    IF deposit_rawtx = None \/ ~deposit_script_hex.some
    THEN [out |-> "AssertionError", value |-> 0]
    ELSE [out |-> "ok", value |-> get_confirms(deposit_rawtx)]

get_timeout_confirms ==
    IF timeout_rawtx = None THEN [out |-> "AssertionError", value |-> 0]
    ELSE [out |-> "ok", value |-> get_confirms(timeout_rawtx)]

get_change_confirms ==
    IF change_rawtx = None THEN [out |-> "AssertionError", value |-> 0]
    ELSE [out |-> "ok", value |-> get_confirms(change_rawtx)]

get_spend_secret_hash ==
    IF spend_secret # None
    THEN [out |-> "ok", value |-> hash160hex(spend_secret)]
    ELSE IF deposit_script_hex.some
    THEN LET found == get_deposit_spend_secret_hash(
                          util_h2b(deposit_script_hex))
         IN  IF found.err # "" THEN [out |-> found.err, value |-> Hex(0, 0)]
             ELSE [out |-> "ok", value |-> found.hex]
    ELSE [out |-> "Exception", value |-> Hex(0, 0)]

is_deposit_confirmed ==
    [get_deposit_confirms EXCEPT !.value = (@ > 0)]

is_deposit_expired ==
    IF ~deposit_script_hex.some THEN [out |-> "TypeError", value |-> FALSE]
    ELSE LET t == get_deposit_expire_time(util_h2b(deposit_script_hex))
         IN  IF t.err # "" THEN [out |-> t.err, value |-> FALSE]
             ELSE IF get_deposit_confirms.out # "ok"
             THEN [out |-> get_deposit_confirms.out, value |-> FALSE]
             ELSE [out |-> "ok",
                   value |-> get_deposit_confirms.value >= t.value]

\* closing by the timeout transaction alone
is_closing_timeout_only == timeout_rawtx # None /\ ~is_timeout_confirmed

is_closing ==
    LET unconfirmed_change ==
            change_rawtx # None /\ ~is_change_confirmed
        unconfirmed_timeout ==
            timeout_rawtx # None /\ ~is_timeout_confirmed
    IN  unconfirmed_change \/ unconfirmed_timeout

\* get_deposit_remaining: the total is looked up first, then the
\* transferred amount, which sorts commits_active
get_deposit_remaining ==
    LET total == get_deposit_total(0)
        transferred == get_transferred_amount(commits_active, 0)
    IN  IF total.out # "ok"
        THEN [out |-> total.out, value |-> 0, active |-> commits_active]
        ELSE [out |-> transferred.out,
              value |-> total.value - transferred.value,
              active |-> transferred.active]

\* a read that ended and assigned no field
Read(op, arg, out, value) ==
    /\ last' = Ended(op, arg, out, IF out = "ok" THEN <<value>> ELSE << >>)
    /\ replayed' = [NoReplay EXCEPT !.again = (last.op = op /\ last.arg = arg)]
    /\ UNCHANGED fields
    /\ UNCHANGED <<sc>>
    /\ NoThreads

GetDepositRemaining ==
    LET r == get_deposit_remaining
    IN  /\ commits_active' = r.active
        /\ last' = Ended("get_deposit_remaining", << >>, r.out,
                         IF r.out = "ok" THEN <<r.value>> ELSE << >>)
        /\ replayed' = [NoReplay EXCEPT
                          !.again = (last.op = "get_deposit_remaining")]
        /\ UNCHANGED <<payer_wif, payee_wif, spend_secret,
                       deposit_script_hex, deposit_rawtx, timeout_rawtx,
                       change_rawtx, commits_requested, commits_revoked,
                       sc>>
        /\ NoThreads

\* the snapshots loaded before reading: each role with every combination
\* of a timeout and a change transaction, absent, unconfirmed or confirmed,
\* and a payer's open channel with commits of any quantity
ClosingSnapshots ==
    {[SnapshotOf(role, "none",
                 <<CommitEntry("c3", "s2"), CommitEntry("c1", "s1")>>)
        EXCEPT !.timeout_rawtx = timeout, !.change_rawtx = change] :
        role \in {"payer", "payee"},
        timeout \in {None, "t0", "t1"}, change \in {None, "x0", "x1"}}

UnvalidatedSnapshots ==
    {SnapshotOf("payer", "none", active) :
        active \in {<< >>, <<CommitEntry("c9", "s1")>>,
                    <<CommitEntry("c0", "s1")>>,
                    <<CommitEntry("c9", "s2"), CommitEntry("c1", "s1")>>}}

ReadSnapshots == ClosingSnapshots \cup UnvalidatedSnapshots

\* load, clear, revoke and every read method; a read that cannot change
\* a field is Read with its name, its outcome and its value
NextReads ==
    \/ \E data \in ReadSnapshots, fail \in SortFailPoints : Load(data, fail)
    \/ Clear
    \/ \E secret \in ThreadSecrets : Revoke(secret)
    \/ \E rawtx \in {"d1", "t0", "t1"} :
           Read("get_confirms", <<rawtx>>, "ok", get_confirms(rawtx))
    \/ Read("get_deposit_confirms", << >>, get_deposit_confirms.out,
            get_deposit_confirms.value)
    \/ Read("get_timeout_confirms", << >>, get_timeout_confirms.out,
            get_timeout_confirms.value)
    \/ Read("get_change_confirms", << >>, get_change_confirms.out,
            get_change_confirms.value)
    \/ Read("get_spend_secret_hash", << >>, get_spend_secret_hash.out,
            get_spend_secret_hash.value)
    \/ Read("is_deposit_confirmed", << >>, is_deposit_confirmed.out,
            is_deposit_confirmed.value)
    \/ Read("is_deposit_expired", << >>, is_deposit_expired.out,
            is_deposit_expired.value)
    \/ Read("is_timeout_confirmed", << >>,
            IF timeout_rawtx = None THEN "AssertionError" ELSE "ok",
            is_timeout_confirmed)
    \/ Read("is_change_confirmed", << >>,
            IF change_rawtx = None THEN "AssertionError" ELSE "ok",
            is_change_confirmed)
    \/ Read("is_closing", << >>, "ok", is_closing)
    \/ Read("is_closed", << >>, "ok", is_closed)
    \/ GetTransferredAmount(0)
    \/ Read("get_deposit_total", << >>, get_deposit_total(0).out,
            get_deposit_total(0).value)
    \/ GetDepositRemaining

SpecReads == Init /\ [][NextReads]_vars

\* the closing transactions the channel holds
ClosingTxs == {timeout_rawtx, change_rawtx} \ {None}

\* C14: whatever closing transactions are present, is_closing returns true
\* exactly when a present one is not yet confirmed and is_closed returns
\* true exactly when a present one is confirmed; with none present both
\* return false, and neither raises.
C14_ClosingAndClosed ==
    /\ last.op = "is_closing" =>
           /\ last.out = "ok"
           /\ last.ret = <<\E tx \in ClosingTxs : confirms(tx) = 0>>
    /\ last.op = "is_closed" =>
           /\ last.out = "ok"
           /\ last.ret = <<\E tx \in ClosingTxs : confirms(tx) > 0>>

\* is_closing answered for a channel whose change transaction is not yet
\* confirmed and that has no timeout transaction
C14_Witness ==
    /\ last.op = "is_closing"
    /\ timeout_rawtx = None
    /\ change_rawtx = "x0"
    /\ last.ret = <<TRUE>>

\* C15: in every state with a deposit, each active and each revoked commit
\* has a quantity q with 0 < q <= deposit total, and get_deposit_remaining
\* never returns a negative amount.
C15_QuantitiesWithinDeposit ==
    /\ deposit_rawtx # None =>
           \A i \in 1..Len(commits_active \o commits_revoked) :
               LET q == Quantity((commits_active \o commits_revoked)[i])
               IN  0 < q /\ q <= get_quantity(deposit_rawtx)
    /\ (last.op = "get_deposit_remaining" /\ last.out = "ok") =>
           last.ret[1] >= 0

\* the read operations
ReadOps ==
    {"get_confirms", "get_deposit_confirms", "get_timeout_confirms",
     "get_change_confirms", "get_spend_secret_hash", "is_deposit_confirmed",
     "is_deposit_expired", "is_timeout_confirmed", "is_change_confirmed",
     "is_closing", "is_closed", "get_transferred_amount",
     "get_deposit_total", "get_deposit_remaining"}

\* C17: a read invoked right after the same read, the oracle unchanged,
\* ends as the first did, with the same result, and changes no field.
C17_ReadsIdempotent ==
    [][(last'.op \in ReadOps /\ last.op = last'.op /\ last.arg = last'.arg)
          => (/\ last'.out = last.out
              /\ last'.ret = last.ret
              /\ UNCHANGED fields)]_vars

\* get_deposit_remaining was invoked twice in a row on a channel with
\* active commits
C17_Witness ==
    /\ replayed.again
    /\ last.op = "get_deposit_remaining"
    /\ last.out = "ok"
    /\ Len(commits_active) > 1

\* C20: whatever closing transactions are present and confirmed,
\* is_closing and is_closed are never both true.
C20_ClosingClosedExclusive ==
    ~(is_closing /\ is_closed)

\* they are not both true with at most one closing transaction present
ExclusiveWithOneClosingTx ==
    Cardinality(ClosingTxs) <= 1 => ~(is_closing /\ is_closed)

(***************************************************************************)
(* get_word on scripts of a few words                                      *)
(***************************************************************************)

\* the longest script read, in words
MaxWords == 3

\* words with and without pushed data
SomeWords == {Word(0, 0, 0), Word(81, 0, 0), Word(1, 1, 7)}

RECURSIVE WordSeqs(_)
WordSeqs(n) ==
    IF n = 0 THEN {<< >>}
    ELSE LET shorter == WordSeqs(n - 1)
         IN  shorter \cup
             {Append(q, w) : q \in {x \in shorter : Len(x) = n - 1},
                             w \in SomeWords}

GetWord(script, index) ==
    /\ sc.phase = "idle"
    /\ sc' = [phase |-> "word", script |-> script, index |-> index,
              result |-> get_word(script, index)]
    /\ NoChannel

ForgetWord ==
    /\ sc.phase = "word"
    /\ sc' = ScIdle
    /\ NoChannel

NextWords ==
    \/ \E script \in WordSeqs(MaxWords), index \in 0..MaxWords :
           GetWord(script, index)
    \/ ForgetWord

SpecWords == Init /\ [][NextWords]_vars

\* C18: get_word(script, index) returns the word at the zero-based
\* position index when index is less than the number of words, and fails,
\* returning no word at all, when index is greater or equal, the empty
\* script included.
C18_GetWord ==
    sc.phase = "word" =>
        IF sc.index < Len(sc.script)
        THEN sc.result = [err |-> "", word |-> sc.script[sc.index + 1]]
        ELSE sc.result = [err |-> "ValueError", word |-> NoWord]

\* a position right behind the last word of a script was asked for
C18_Witness ==
    /\ sc.phase = "word"
    /\ Len(sc.script) > 0
    /\ sc.index = Len(sc.script)
    /\ sc.result.err = "ValueError"

(***************************************************************************)
(* The solve methods of the two script classes, and the branch of the      *)
(* template that the witness they build selects                            *)
(***************************************************************************)

\* spend and revoke secrets as hex text, and encoding.hash160 of bytes
SecretHexes == {Hex(32, 11), Hex(32, 12)}
hash160(data) == [len |-> 20, val |-> data.val + 200]

\* hash160_lookup.get(hash160(sec)) and the signature made with the key
sign_with(sec, hash160_lookup, sign_value, signature_type) ==
    IF sec.val \notin hash160_lookup
    THEN [err |-> "TypeError", sig |-> NoBytes]
    ELSE [err |-> "",
          sig |-> create_script_signature(sec.val, sign_value,
                                          signature_type)]

DEFAULT_PLACEHOLDER_SIGNATURE == [len |-> SigLen, val |-> 0]

solve_payout(payee_sec, hash160_lookup, sign_value, signature_type, secret) ==
    LET s == sign_with(payee_sec, hash160_lookup, sign_value, signature_type)
    IN  IF s.err # "" THEN Solved(s.err, << >>)
        ELSE Solved("", compile(<<b2h(s.sig), secret, Op("OP_1")>>))

solve_revoke(payer_sec, hash160_lookup, sign_value, signature_type, revoke_secret) ==
    LET s == sign_with(payer_sec, hash160_lookup, sign_value, signature_type)
    IN  IF s.err # "" THEN Solved(s.err, << >>)
        ELSE Solved("", compile(<<b2h(s.sig), revoke_secret, Op("OP_0")>>))

\* a timeout witness whose selectors are those of a change
solve_timeout_as_change(payer_sec, hash160_lookup, sign_value, signature_type) ==
    LET s == sign_with(payer_sec, hash160_lookup, sign_value, signature_type)
    IN  IF s.err # "" THEN Solved(s.err, << >>)
        ELSE Solved("", compile(<<b2h(s.sig), Op("OP_1"), Op("OP_0")>>))

solve_timeout(payer_sec, hash160_lookup, sign_value, signature_type) ==
    LET s == sign_with(payer_sec, hash160_lookup, sign_value, signature_type)
    IN  IF s.err # "" THEN Solved(s.err, << >>)
        ELSE Solved("", compile(<<b2h(s.sig), Op("OP_0"), Op("OP_0")>>))

solve_change(payer_sec, script, hash160_lookup, sign_value, signature_type, secret) ==
    LET s == sign_with(payer_sec, hash160_lookup, sign_value, signature_type)
        spend_secret_hash == get_deposit_spend_secret_hash(script)
        provided_spend_secret_hash == b2h(hash160(h2b(secret)))
    IN  IF s.err # "" THEN Solved(s.err, << >>)
        ELSE IF spend_secret_hash.err # ""
        THEN Solved(spend_secret_hash.err, << >>)
        ELSE IF spend_secret_hash.hex # provided_spend_secret_hash
        THEN Solved("AssertionError", << >>)
        ELSE Solved("", compile(<<b2h(s.sig), secret, Op("OP_1"),
                                  Op("OP_0")>>))

solve_create_commit(payer_sec, hash160_lookup, sign_value, signature_type) ==
    LET s == sign_with(payer_sec, hash160_lookup, sign_value, signature_type)
    IN  IF s.err # "" THEN Solved(s.err, << >>)
        ELSE Solved("", compile(<<Op("OP_0"), b2h(s.sig),
                                  b2h(DEFAULT_PLACEHOLDER_SIGNATURE),
                                  Op("OP_1")>>))

\* the arguments of solve: kwargs
Kwargs(spend_type, hash160_lookup, sign_value, signature_type, secret, existing_script) ==
    [spend_type |-> spend_type, hash160_lookup |-> hash160_lookup,
     sign_value |-> sign_value, signature_type |-> signature_type,
     secret |-> secret, existing_script |-> existing_script]

\* AbsScriptChannelCommit.solve of an object with these attributes
CommitSolve(payer_sec, payee_sec, kwargs) ==
    CASE kwargs.spend_type = "payout" ->
           solve_payout(payee_sec, kwargs.hash160_lookup, kwargs.sign_value,
                        kwargs.signature_type, kwargs.secret)
      [] kwargs.spend_type = "revoke" ->
           solve_revoke(payer_sec, kwargs.hash160_lookup, kwargs.sign_value,
                        kwargs.signature_type, kwargs.secret)
      [] OTHER -> Solved("KeyError", << >>)

\* AbsScriptChannelDeposit.solve of an object with these attributes
DepositSolve(payer_sec, payee_sec, script, kwargs) ==
    CASE kwargs.spend_type = "timeout" ->
           solve_timeout(payer_sec, kwargs.hash160_lookup, kwargs.sign_value,
                         kwargs.signature_type)
      [] kwargs.spend_type = "change" ->
           solve_change(payer_sec, script, kwargs.hash160_lookup,
                        kwargs.sign_value, kwargs.signature_type,
                        kwargs.secret)
      [] kwargs.spend_type = "create_commit" ->
           solve_create_commit(payer_sec, kwargs.hash160_lookup,
                               kwargs.sign_value, kwargs.signature_type)
      [] kwargs.spend_type = "finalize_commit" ->
           solve_finalize_commit(payer_sec, payee_sec, kwargs.hash160_lookup,
                                 kwargs.sign_value, kwargs.existing_script)
      [] OTHER -> Solved("KeyError", << >>)

\* the script interpreter, as far as the choice of the branch goes: a
\* word is true unless it pushes nothing, zero or negative zero
CastToBool(word) ==
    IF word.op = 0 THEN FALSE
    ELSE IF word.op \in 81..96 THEN TRUE
    ELSE word.val # 0 /\ word.val # pow2(8 * word.len - 1)

IsPush(word) == word.op \in 0..75 \/ word.op \in 81..96

\* how many words an operation takes off the stack and whether it puts
\* one back; OP_CHECKMULTISIG takes the counts, the keys, the signatures
\* and one more word
Takes(word, stack) ==
    CASE word.op = OPCODE_TO_INT.OP_NOP3 -> 0
      [] word.op = OPCODE_TO_INT.OP_DROP -> 1
      [] word.op = OPCODE_TO_INT.OP_HASH160 -> 1
      [] word.op = OPCODE_TO_INT.OP_EQUALVERIFY -> 2
      [] word.op = OPCODE_TO_INT.OP_CHECKSIG -> 2
      [] word.op = OPCODE_TO_INT.OP_CHECKMULTISIG ->
           IF stack = << >> THEN 1
           ELSE LET n == stack[Len(stack)].op - 80
                IN  IF n < 0 \/ Len(stack) < n + 2 THEN Len(stack) + 1
                    ELSE n + (stack[Len(stack) - n - 1].op - 80) + 3
      [] OTHER -> 0

Gives(word) ==
    word.op \in {OPCODE_TO_INT.OP_HASH160, OPCODE_TO_INT.OP_CHECKSIG,
                 OPCODE_TO_INT.OP_CHECKMULTISIG}

\* the script run from its word k on: stack is the data stack, conds the
\* conditions of the open OP_IFs, path the positions of the words executed
RECURSIVE Eval(_, _, _, _, _)
Eval(script, k, stack, conds, path) ==
    IF k > Len(script)
    THEN [err |-> IF conds = << >> THEN "" ELSE "unbalanced",
          stack |-> stack, path |-> path]
    ELSE LET word == script[k]
             executing == \A i \in 1..Len(conds) : conds[i]
             failed == [err |-> "failed", stack |-> stack, path |-> path]
         IN  IF word.op = OPCODE_TO_INT.OP_IF
             THEN IF ~executing
                  THEN Eval(script, k + 1, stack, Append(conds, FALSE), path)
                  ELSE IF stack = << >> THEN failed
                  ELSE Eval(script, k + 1, SubSeq(stack, 1, Len(stack) - 1),
                            Append(conds, CastToBool(stack[Len(stack)])),
                            path)
             ELSE IF word.op = OPCODE_TO_INT.OP_ELSE
             THEN IF conds = << >> THEN failed
                  ELSE Eval(script, k + 1, stack,
                            [conds EXCEPT ![Len(conds)] = ~@], path)
             ELSE IF word.op = OPCODE_TO_INT.OP_ENDIF
             THEN IF conds = << >> THEN failed
                  ELSE Eval(script, k + 1, stack,
                            SubSeq(conds, 1, Len(conds) - 1), path)
             ELSE IF ~executing
             THEN Eval(script, k + 1, stack, conds, path)
             ELSE IF IsPush(word)
             THEN Eval(script, k + 1, Append(stack, word), conds,
                       Append(path, k))
             ELSE IF Takes(word, stack) > Len(stack) THEN failed
             ELSE LET rest == SubSeq(stack, 1,
                                     Len(stack) - Takes(word, stack))
                  IN  Eval(script, k + 1,
                           IF Gives(word) THEN Append(rest, Word(81, 0, 0))
                           ELSE rest,
                           conds, Append(path, k))

\* the witness run first, the script on the stack it leaves
Run(witness, script) ==
    LET pushed == Eval(witness, 1, << >>, << >>, << >>)
    IN  IF pushed.err # "" THEN pushed
        ELSE Eval(script, 1, pushed.stack, << >>, << >>)

SpendTypes ==
    {"timeout", "change", "create_commit", "finalize_commit", "payout",
     "revoke"}
SolveTimelocks == {0, 5, 16}

\* an object of the deposit or of the commit class, and solve(**kwargs)
Solve(kind, time, spend_type, sign_value, signature_type, secret) ==
    LET payer_sec == h2b(PayerPubkey)
        payee_sec == h2b(PayeePubkey)
        hash160_lookup == {PayerPubkey.val, PayeePubkey.val}
        script ==
            IF kind = "deposit"
            THEN compile_deposit_script(
                     b2h(payer_sec), b2h(payee_sec),
                     b2h(hash160(h2b(Hex(32, 11)))), time)
            ELSE compile_commit_script(
                     b2h(payer_sec), b2h(payee_sec),
                     b2h(hash160(h2b(Hex(32, 11)))),
                     b2h(hash160(h2b(Hex(32, 12)))), time)
        existing_script ==
            solve_create_commit(payer_sec, hash160_lookup, sign_value,
                                signature_type).script
        kwargs == Kwargs(spend_type, hash160_lookup, sign_value,
                         signature_type, secret, existing_script)
        result == IF kind = "deposit"
                  THEN DepositSolve(payer_sec, payee_sec, script, kwargs)
                  ELSE CommitSolve(payer_sec, payee_sec, kwargs)
    IN  /\ sc.phase = "idle"
        /\ sc' = [phase |-> "solved", kind |-> kind, script |-> script,
                  kwargs |-> kwargs, result |-> result,
                  run |-> Run(result.script, script)]
        /\ NoChannel

ForgetSolved ==
    /\ sc.phase = "solved"
    /\ sc' = ScIdle
    /\ NoChannel

NextSolve ==
    \/ \E kind \in {"deposit", "commit"}, time \in SolveTimelocks,
          spend_type \in SpendTypes, sign_value \in SignValues,
          signature_type \in SignatureTypes, secret \in SecretHexes :
           Solve(kind, time, spend_type, sign_value, signature_type, secret)
    \/ ForgetSolved

SpecSolve == Init /\ [][NextSolve]_vars

\* the positions of the words of each branch of the two templates
Positions(from, to) == [i \in 1..(to - from + 1) |-> from + i - 1]
DepositMultisig == Positions(2, 6)
DepositSecretReveal == Positions(9, 13)
DepositTimelock == Positions(15, 19)
CommitPayout == Positions(2, 9)
CommitRevoke == Positions(11, 15)

IntendedPath(spend_type) ==
    CASE spend_type = "timeout" -> DepositTimelock
      [] spend_type = "change" -> DepositSecretReveal
      [] spend_type = "create_commit" -> DepositMultisig
      [] spend_type = "finalize_commit" -> DepositMultisig
      [] spend_type = "payout" -> CommitPayout
      [] spend_type = "revoke" -> CommitRevoke

\* C19: the witness solve builds for a spend type runs exactly the words
\* of the template branch meant for it: timeout the deposit's outer else
\* and inner else, change the outer else and inner if, create_commit and
\* finalize_commit the outer if, payout the commit's if, revoke its else.
C19_SelectorsChooseBranch ==
    (sc.phase = "solved" /\ sc.result.err = "") =>
        /\ sc.run.err = ""
        /\ sc.run.path = IntendedPath(sc.kwargs.spend_type)

\* a witness was built for a timeout and ran the timelock branch
C19_Witness ==
    /\ sc.phase = "solved"
    /\ sc.kwargs.spend_type = "timeout"
    /\ sc.result.err = ""
    /\ sc.run.path = DepositTimelock

(***************************************************************************)
(* Two channel instances and the caller's snapshot, as objects: which      *)
(* list an operation changes in place, and which lists are copies          *)
(***************************************************************************)

\* attribute lookup: the instance's own attribute, or else the class's
getattr(h, i, f) ==
    IF f \in DOMAIN h.dict[i] THEN h.dict[i][f] ELSE h.class[f]

\* an assignment that lands on the class
setattr_on_class(h, i, f, v) == [h EXCEPT !.class[f] = v]

\* self.f = v
setattr(h, i, f, v) == [h EXCEPT !.dict[i] = (f :> v) @@ @]

\* a dict of the ten fields whose lists are references, with the lists
\* themselves in place of the references
Deref(h, obj) ==
    [obj EXCEPT !.commits_requested = h.store[@],
                !.commits_active = h.store[@],
                !.commits_revoked = h.store[@]]

\* the attributes of instance i as they are looked up
Attrs(h, i) == [f \in DOMAIN Cleared |-> getattr(h, i, f)]

\* the fields of instance i as a reader sees them
View(h, i) == Deref(h, Attrs(h, i))

\* the lists something still refers to
Live(h) ==
    {h.class[f] : f \in ListFields}
    \cup UNION {{h.dict[i][f] : f \in ListFields \cap DOMAIN h.dict[i]} :
                   i \in Instances}
    \cup (IF h.held.kind = "none" THEN {}
          ELSE {h.held.obj[f] : f \in ListFields})

\* the first n references to lists nothing refers to, lowest first
RECURSIVE NewRefs(_, _)
NewRefs(taken, n) ==
    IF n = 0 THEN << >>
    ELSE LET r == CHOOSE x \in Refs \ taken :
                      \A y \in Refs \ taken : x <= y
         IN  <<r>> \o NewRefs(taken \cup {r}, n - 1)

\* a dict whose three lists are new lists holding what data's lists hold
WithNewLists(h, data) ==
    LET r == NewRefs(Live(h), 3)
    IN  [heap |-> [h EXCEPT !.store[r[1]] = data.commits_requested,
                            !.store[r[2]] = data.commits_active,
                            !.store[r[3]] = data.commits_revoked],
         obj |-> [data EXCEPT !.commits_requested = r[1],
                              !.commits_active = r[2],
                              !.commits_revoked = r[3]]]

\* a copy that is the object itself
same_object(h, obj) == [heap |-> h, obj |-> obj]

\* copy.deepcopy of a dict of the ten fields: its lists and their entries
\* are copied into new lists
deepcopy(h, obj) == WithNewLists(h, Deref(h, obj))

\* the references in seq, each once, in the order of their first place
RECURSIVE Distinct(_, _)
Distinct(seq, seen) ==
    IF seq = << >> THEN seen
    ELSE Distinct(Tail(seq),
                  IF \E k \in 1..Len(seen) : seen[k] = Head(seq) THEN seen
                  ELSE Append(seen, Head(seq)))

ListFieldOrder == <<"commits_requested", "commits_active", "commits_revoked">>

\* the references a dict holds for its list fields
RefsOf(dict) ==
    LET at(k) == IF ListFieldOrder[k] \in DOMAIN dict
                 THEN <<dict[ListFieldOrder[k]]>> ELSE << >>
    IN  at(1) \o at(2) \o at(3)

\* lists nothing refers to any more are gone, and the lists that remain
\* are named in the order the class, the instances and the caller refer
\* to them (a reference is a name and nothing else)
Collected(h) ==
    LET order == Distinct(RefsOf(h.class) \o RefsOf(h.dict["A"])
                            \o RefsOf(h.dict["B"])
                            \o (IF h.held.kind = "none" THEN << >>
                                ELSE RefsOf(h.held.obj)), << >>)
        name(r) == CHOOSE k \in 1..Len(order) : order[k] = r
        named(dict) ==
            [f \in DOMAIN dict |-> IF f \in ListFields THEN name(dict[f])
                                   ELSE dict[f]]
    IN  [h EXCEPT
           !.store = [r \in Refs |-> IF r <= Len(order) THEN h.store[order[r]]
                                     ELSE << >>],
           !.class = named(h.class),
           !.dict = [i \in Instances |-> named(h.dict[i])],
           !.held = IF h.held.kind = "none" THEN NoHeld
                    ELSE [h.held EXCEPT !.obj = named(h.held.obj)]]

\* the assignments self.f = obj[f], in the order of the code
RECURSIVE setattrs(_, _, _, _)
setattrs(h, i, obj, k) ==
    IF k > Len(FieldOrder) THEN h
    ELSE setattrs(setattr(h, i, FieldOrder[k], obj[FieldOrder[k]]),
                  i, obj, k + 1)

\* self.commits_active.sort(key=sort_func): the list is sorted in place
order_active_in_place(h, i) ==
    [h EXCEPT !.store[getattr(h, i, "commits_active")] = _order_active(@)]

Did(h, name, i) ==
    Collected([h EXCEPT !.op = [name |-> name, inst |-> i]])

\* load(data): data = copy.deepcopy(data), the assignments, the sort
heap_load(h, i, obj) ==
    LET copied == deepcopy(h, obj)
    IN  order_active_in_place(setattrs(copied.heap, i, copied.obj, 1), i)

\* save(): the sort, then copy.deepcopy of a dict of the attributes
heap_save(h, i) ==
    LET sorted == order_active_in_place(h, i)
    IN  deepcopy(sorted, Attrs(sorted, i))

\* clear(): each list field is assigned a new empty list
heap_clear(h, i) ==
    LET new == WithNewLists(h, Cleared)
    IN  setattrs(new.heap, i, new.obj, 1)

\* revoke(secret): remove and append change the instance's lists in place
heap_revoke(h, i, secret) ==
    LET active == getattr(h, i, "commits_active")
        revoked == getattr(h, i, "commits_revoked")
        r == revoke(h.store[active], h.store[revoked], secret)
    IN  [heap |-> [h EXCEPT !.store =
                     [x \in Refs |-> IF x = revoked THEN r.revoked
                                     ELSE IF x = active THEN r.active
                                     ELSE h.store[x]]],
         ret |-> r.ret]

RECURSIVE heap_revoke_all(_, _, _, _)
heap_revoke_all(h, i, secrets, rets) ==
    IF secrets = << >> THEN [heap |-> h, ret |-> rets]
    ELSE LET r == heap_revoke(h, i, Head(secrets))
         IN  heap_revoke_all(r.heap, i, Tail(secrets), Append(rets, r.ret))

NoValues ==
    UNCHANGED <<payer_wif, payee_wif, spend_secret, deposit_script_hex,
                deposit_rawtx, timeout_rawtx, change_rawtx, commits_requested,
                commits_active, commits_revoked, last, replayed, thread,
                mutex, sc>>

\* the caller drops the snapshot it held, if any
Dropped(h) == Collected([h EXCEPT !.held = NoHeld])

\* the caller builds a snapshot, keeps it, and loads it into instance i
H_Load(i, data) ==
    LET built == WithNewLists(Dropped(heap), data)
        kept == [built.heap EXCEPT
                   !.held = [kind |-> "built", obj |-> built.obj,
                             taken |-> data]]
    IN  /\ heap' = Did(heap_load(kept, i, built.obj), "load", i)
        /\ NoValues

\* the caller loads the snapshot it holds into instance i
H_LoadHeld(i) ==
    /\ heap.held.kind # "none"
    /\ heap' = Did(heap_load(heap, i, heap.held.obj), "load_held", i)
    /\ NoValues

\* the caller keeps what save returns
H_Save(i) ==
    LET saved == heap_save(Dropped(heap), i)
    IN  /\ heap' = Did([saved.heap EXCEPT
                          !.held = [kind |-> "saved", obj |-> saved.obj,
                                    taken |-> Deref(saved.heap, saved.obj)]],
                       "save", i)
        /\ NoValues

H_Clear(i) ==
    /\ heap' = Did(heap_clear(heap, i), "clear", i)
    /\ NoValues

H_SetSpendSecret(i, secret) ==
    /\ heap' = Did(setattr(heap, i, "spend_secret", secret),
                   "set_spend_secret", i)
    /\ NoValues

H_Revoke(i, secret) ==
    LET r == heap_revoke(heap, i, secret)
    IN  /\ heap' = Did(r.heap, "revoke", i)
        /\ NoValues

H_RevokeAll(i, secrets) ==
    LET r == heap_revoke_all(heap, i, secrets, << >>)
    IN  /\ heap' = Did(r.heap, "revoke_all", i)
        /\ NoValues

\* get_transferred_amount() sorts before it reads
H_GetTransferredAmount(i) ==
    /\ heap' = Did(order_active_in_place(heap, i),
                   "get_transferred_amount", i)
    /\ NoValues

\* the snapshots the caller builds
HeapSnapshots ==
    {SnapshotOf("payer", "none",
                <<CommitEntry("c3", "s2"), CommitEntry("c1", "s1")>>),
     SnapshotOf("payee", "t0", <<CommitEntry("c1", "s1")>>)}

NextHeap ==
    \E i \in Instances :
        \/ \E data \in HeapSnapshots : H_Load(i, data)
        \/ H_LoadHeld(i)
        \/ H_Save(i)
        \/ H_Clear(i)
        \/ \E secret \in SpendSecrets : H_SetSpendSecret(i, secret)
        \/ \E secret \in ThreadSecrets : H_Revoke(i, secret)
        \/ \E secrets \in ThreadSecretSeqs : H_RevokeAll(i, secrets)
        \/ H_GetTransferredAmount(i)

SpecHeap == Init /\ [][NextHeap]_vars

\* the snapshot in the caller's hands, as its holder reads it
HeldNow == Deref(heap, heap.held.obj)

\* C13: the snapshot save returns equals the fields of the channel at that
\* moment; no later operation on any channel alters a snapshot that save
\* returned or that was passed to load; and loading a saved snapshot gives
\* the channel exactly the saved fields.
C13_SnapshotsAreCopies ==
    /\ heap.held.kind # "none" => HeldNow = heap.held.taken
    /\ heap.op.name = "save" => HeldNow = View(heap, heap.op.inst)
    /\ (heap.op.name = "load_held" /\ heap.held.kind = "saved") =>
           View(heap, heap.op.inst) = heap.held.taken

\* a revoke moved an entry of the channel whose saved snapshot the caller
\* holds: the channel's lists differ from the snapshot's
C13_Witness ==
    /\ heap.held.kind = "saved"
    /\ heap.op.name = "revoke"
    /\ heap.held.taken.commits_active # << >>
    /\ View(heap, heap.op.inst).commits_revoked # << >>
    /\ [View(heap, heap.op.inst) EXCEPT
          !.commits_active = heap.held.taken.commits_active,
          !.commits_revoked = heap.held.taken.commits_revoked]
         = heap.held.taken

\* C16: an operation on one channel instance leaves every field of the
\* other instance as it was, also when the other instance was constructed
\* and never loaded or cleared.
C16_InstancesIndependent ==
    [][\A i \in Instances :
          heap'.op.inst # i => View(heap', i) = View(heap, i)]_vars

\* entries were loaded into one instance and revoked there while the
\* other instance has no attribute of its own
C16_Witness ==
    \E i, j \in Instances :
        /\ DOMAIN heap.dict[j] = {}
        /\ heap.op = [name |-> "revoke", inst |-> i]
        /\ View(heap, i).commits_revoked # << >>
        /\ View(heap, j) = Cleared

(***************************************************************************)
(* The channel lock: every locked method is `with self.mutex: body`, the   *)
(* mutex an RLock (base.py 56).  A thread's call is a stack of frames, one *)
(* for each method it is in; a frame is at position 0 before its with     *)
(* block is entered and at the statement it runs next afterwards.          *)
(***************************************************************************)

\* what the methods are called with
Args(data, rawtx, secrets, quantity) ==
    [data |-> data, rawtx |-> rawtx, secrets |-> secrets,
     quantity |-> quantity]
NoArgs == Args(Cleared, None, << >>, 0)

\* revoke_all is the one public method without a with block of its own
Locked(m) == m # "revoke_all"

Frame(m, arg) == [m |-> m, arg |-> arg, at |-> IF Locked(m) THEN 0 ELSE 1]

\* a statement of a body: a computation that assigns fields or raises, a
\* lookup of the oracle that returns (data is what the statement has
\* assigned when the lookup returned) or fails, a call of another method
\* of the channel, or the end of the body
Local(raises, data, next) ==
    [k |-> "local", raises |-> raises, data |-> data, m |-> "",
     arg |-> NoArgs, next |-> next]
Lookup(data, next) ==
    [k |-> "oracle", raises |-> "", data |-> data, m |-> "",
     arg |-> NoArgs, next |-> next]
CallTo(m, arg, next) ==
    [k |-> "call", raises |-> "", data |-> Snapshot, m |-> m,
     arg |-> arg, next |-> next]
Leave ==
    [k |-> "leave", raises |-> "", data |-> Snapshot, m |-> "",
     arg |-> NoArgs, next |-> 0]
Skip(next) == Local("", Snapshot, next)
AssertThat(cond, next) ==
    Local(IF cond THEN "" ELSE "AssertionError", Snapshot, next)

\* self._order_active(): no lookup is made for an empty list
OrderActive(next) ==
    IF commits_active = << >> THEN Skip(next)
    ELSE Lookup([Snapshot EXCEPT
                    !.commits_active = _order_active(commits_active)], next)

\* the statement of method m at position at, in the channel's state
Body(m, at, arg) ==
    CASE m = "save" ->
           CASE at = 1 -> OrderActive(2)
             [] at = 2 -> Skip(3)
             [] OTHER -> Leave
      [] m = "load" ->
           CASE at = 1 -> Local("", arg.data, 2)
             [] at = 2 -> OrderActive(3)
             [] OTHER -> Leave
      [] m = "clear" ->
           CASE at = 1 -> Local("", Cleared, 2)
             [] OTHER -> Leave
      [] m = "get_confirms" ->
           CASE at = 1 -> Lookup(Snapshot, 2)
             [] OTHER -> Leave
      [] m = "get_deposit_confirms" ->
           CASE at = 1 -> AssertThat(deposit_rawtx # None
                                     /\ deposit_script_hex.some, 2)
             [] at = 2 -> CallTo("get_confirms",
                                 [NoArgs EXCEPT !.rawtx = deposit_rawtx], 3)
             [] OTHER -> Leave
      [] m = "get_timeout_confirms" ->
           CASE at = 1 -> AssertThat(timeout_rawtx # None, 2)
             [] at = 2 -> CallTo("get_confirms",
                                 [NoArgs EXCEPT !.rawtx = timeout_rawtx], 3)
             [] OTHER -> Leave
      [] m = "get_change_confirms" ->
           CASE at = 1 -> AssertThat(change_rawtx # None, 2)
             [] at = 2 -> CallTo("get_confirms",
                                 [NoArgs EXCEPT !.rawtx = change_rawtx], 3)
             [] OTHER -> Leave
      [] m = "get_spend_secret_hash" ->
           CASE at = 1 -> Local(IF get_spend_secret_hash.out = "ok" THEN ""
                                ELSE get_spend_secret_hash.out, Snapshot, 2)
             [] OTHER -> Leave
      [] m = "is_deposit_confirmed" ->
           CASE at = 1 -> CallTo("get_deposit_confirms", NoArgs, 2)
             [] OTHER -> Leave
      [] m = "is_deposit_expired" ->
           CASE at = 1 ->
                  Local(IF ~deposit_script_hex.some THEN "TypeError"
                        ELSE get_deposit_expire_time(
                                 util_h2b(deposit_script_hex)).err,
                        Snapshot, 2)
             [] at = 2 -> CallTo("get_deposit_confirms", NoArgs, 3)
             [] OTHER -> Leave
      [] m = "is_timeout_confirmed" ->
           CASE at = 1 -> AssertThat(timeout_rawtx # None, 2)
             [] at = 2 -> Lookup(Snapshot, 3)
             [] OTHER -> Leave
      [] m = "is_change_confirmed" ->
           CASE at = 1 -> AssertThat(change_rawtx # None, 2)
             [] at = 2 -> Lookup(Snapshot, 3)
             [] OTHER -> Leave
      [] m = "is_closing" ->
           CASE at = 1 -> IF change_rawtx # None
                          THEN CallTo("is_change_confirmed", NoArgs, 2)
                          ELSE Skip(2)
             [] at = 2 -> IF timeout_rawtx # None
                          THEN CallTo("is_timeout_confirmed", NoArgs, 3)
                          ELSE Skip(3)
             [] OTHER -> Leave
      [] m = "is_closed" ->
           CASE at = 1 -> IF change_rawtx # None
                          THEN CallTo("is_change_confirmed", NoArgs, 2)
                          ELSE Skip(2)
             [] at = 2 -> IF change_rawtx # None /\ is_change_confirmed
                          THEN Skip(3)
                          ELSE IF timeout_rawtx # None
                          THEN CallTo("is_timeout_confirmed", NoArgs, 3)
                          ELSE Skip(3)
             [] OTHER -> Leave
      [] m = "set_spend_secret" ->
           CASE at = 1 -> Local("", [Snapshot EXCEPT
                                       !.spend_secret = Head(arg.secrets)],
                                2)
             [] OTHER -> Leave
      [] m = "get_transferred_amount" ->
           CASE at = 1 -> IF Len(commits_active) = 0 THEN Skip(3)
                          ELSE OrderActive(2)
             [] at = 2 -> Lookup(Snapshot, 3)
             [] OTHER -> Leave
      [] m = "get_deposit_total" ->
           CASE at = 1 -> AssertThat(deposit_rawtx # None, 2)
             [] at = 2 -> Lookup(Snapshot, 3)
             [] OTHER -> Leave
      [] m = "get_deposit_remaining" ->
           CASE at = 1 -> CallTo("get_deposit_total", NoArgs, 2)
             [] at = 2 -> CallTo("get_transferred_amount", NoArgs, 3)
             [] OTHER -> Leave
      [] m = "_validate_transfer_quantity" ->
           CASE at = 1 -> CallTo("get_transferred_amount", NoArgs, 2)
             [] at = 2 ->
                  Local(IF arg.quantity
                             <= get_transferred_amount(commits_active,
                                                       0).value
                        THEN "ValueError" ELSE "", Snapshot, 3)
             [] at = 3 -> CallTo("get_deposit_total", NoArgs, 4)
             [] at = 4 ->
                  Local(IF arg.quantity > get_deposit_total(0).value
                        THEN "AttributeError" ELSE "", Snapshot, 5)
             [] OTHER -> Leave
      [] m = "revoke_all" ->
           IF at > Len(arg.secrets) THEN Leave
           ELSE CallTo("revoke",
                       [NoArgs EXCEPT !.secrets = <<arg.secrets[at]>>],
                       at + 1)
      [] OTHER ->
           \* revoke
           CASE at = 1 ->
                  LET r == revoke(commits_active, commits_revoked,
                                  Head(arg.secrets))
                  IN  Local(IF r.out = "ok" THEN "" ELSE r.out,
                            [Snapshot EXCEPT !.commits_active = r.active,
                                             !.commits_revoked = r.revoked],
                            2)
             [] OTHER -> Leave

\* RLock.acquire by thread t, which finds the lock free or its own
RLock_acquire(mx, t) == [owner |-> t, count |-> mx.count + 1]

\* RLock.release: one level; the lock is free when the last level is left
RLock_release(mx) ==
    [owner |-> IF mx.count = 1 THEN 0 ELSE mx.owner, count |-> mx.count - 1]

\* a lock taken by hand and released at the end of the body only
release_on_return_only(mx, exc) ==
    IF exc # "" THEN mx ELSE RLock_release(mx)

\* the end of `with self.mutex:`, left by a return (exc = "") or by the
\* exception exc
with_exit(mx, exc) == RLock_release(mx)

\* a thread in a call, and a thread whose call has ended: deep is the
\* deepest the calls were nested, raised whether the call ended in an
\* exception
Running(pc, stack, exc, deep) ==
    [pc |-> pc, stack |-> stack, exc |-> exc, deep |-> deep]
Returned(raised, deep) == [pc |-> "done", raised |-> raised, deep |-> deep]

Top(t) == thread[t].stack[Len(thread[t].stack)]
Statement(t) == Body(Top(t).m, Top(t).at, Top(t).arg)
Goes(t, next) ==
    [thread EXCEPT ![t].stack[Len(thread[t].stack)].at = next]
Popped(t, raised) ==
    [thread EXCEPT ![t] =
        IF Len(thread[t].stack) = 1
        THEN Returned(raised, thread[t].deep)
        ELSE [@ EXCEPT !.stack = SubSeq(@, 1, Len(@) - 1)]]

\* the channel a thread loads: a payee's, with both closing transactions
\* and one active commit
LockSnapshot ==
    [SnapshotOf("payee", "t1", <<CommitEntry("c1", "s1")>>)
        EXCEPT !.change_rawtx = "x0"]

\* the public operations with their arguments
LockCalls ==
    {Frame(m, NoArgs) :
        m \in {"save", "clear", "get_deposit_confirms",
               "get_timeout_confirms", "get_change_confirms",
               "get_spend_secret_hash", "is_deposit_confirmed",
               "is_deposit_expired", "is_timeout_confirmed",
               "is_change_confirmed", "is_closing", "is_closed",
               "get_transferred_amount", "get_deposit_total",
               "get_deposit_remaining"}}
    \cup {Frame("load", [NoArgs EXCEPT !.data = LockSnapshot]),
          Frame("get_confirms", [NoArgs EXCEPT !.rawtx = "d1"]),
          Frame("set_spend_secret", [NoArgs EXCEPT !.secrets = <<"ss">>]),
          Frame("revoke", [NoArgs EXCEPT !.secrets = <<"s1">>]),
          Frame("revoke_all", [NoArgs EXCEPT !.secrets = <<"s1", "s2">>])}
    \cup {Frame("_validate_transfer_quantity",
                [NoArgs EXCEPT !.quantity = q]) : q \in {0, 1000, 1001}}

\* a thread calls a public operation of the channel
L_Call(t, frame) ==
    /\ thread[t].pc \in {"idle", "done"}
    /\ thread' = [thread EXCEPT ![t] = Running("run", <<frame>>, "", 1)]
    /\ UNCHANGED <<mutex>>
    /\ UNCHANGED fields
    /\ NoCaller

\* with self.mutex: entered when the lock is free or the thread's own
L_Acquire(t) ==
    /\ thread[t].pc = "run"
    /\ Top(t).at = 0
    /\ mutex.owner \in {0, t}
    /\ mutex' = RLock_acquire(mutex, t)
    /\ thread' = Goes(t, 1)
    /\ UNCHANGED fields
    /\ NoCaller

\* thread t is inside the body of a method
InBody(t) == thread[t].pc = "run" /\ Top(t).at > 0

\* a statement that computes and assigns
Computes(t, st) ==
    /\ st.k = "local"
    /\ st.raises = ""
    /\ Assign(st.data)
    /\ thread' = Goes(t, st.next)
    /\ UNCHANGED <<mutex>>
    /\ NoCaller

\* a statement that raises: an assert, a raise, a failing conversion
Raises(t, st) ==
    /\ st.k = "local"
    /\ st.raises # ""
    /\ thread' = [thread EXCEPT ![t].pc = "raise", ![t].exc = st.raises]
    /\ UNCHANGED <<mutex>>
    /\ UNCHANGED fields
    /\ NoCaller

\* a lookup of the oracle returns
LooksUp(t, st) ==
    /\ st.k = "oracle"
    /\ Assign(st.data)
    /\ thread' = Goes(t, st.next)
    /\ UNCHANGED <<mutex>>
    /\ NoCaller

\* a lookup of the oracle fails
LookupFails(t, st) ==
    /\ st.k = "oracle"
    /\ thread' = [thread EXCEPT ![t].pc = "raise",
                                ![t].exc = "OracleError"]
    /\ UNCHANGED <<mutex>>
    /\ UNCHANGED fields
    /\ NoCaller

\* self.method(...): a frame is pushed, the caller goes on afterwards
Calls(t, st) ==
    /\ st.k = "call"
    /\ thread' =
         [thread EXCEPT ![t] =
            Running("run",
                    Append(Goes(t, st.next)[t].stack, Frame(st.m, st.arg)),
                    "",
                    IF Len(thread[t].stack) + 1 > thread[t].deep
                    THEN Len(thread[t].stack) + 1 ELSE thread[t].deep)]
    /\ UNCHANGED <<mutex>>
    /\ UNCHANGED fields
    /\ NoCaller

\* the method returns: its with block is left
Returns(t, st) ==
    /\ st.k = "leave"
    /\ mutex' = IF Locked(Top(t).m) THEN with_exit(mutex, "") ELSE mutex
    /\ thread' = Popped(t, FALSE)
    /\ UNCHANGED fields
    /\ NoCaller

L_Local(t) == InBody(t) /\ \E st \in {Statement(t)} : Computes(t, st)
L_Raise(t) == InBody(t) /\ \E st \in {Statement(t)} : Raises(t, st)
L_Lookup(t) == InBody(t) /\ \E st \in {Statement(t)} : LooksUp(t, st)
L_LookupFails(t) == InBody(t) /\ \E st \in {Statement(t)} : LookupFails(t, st)
L_Nested(t) == InBody(t) /\ \E st \in {Statement(t)} : Calls(t, st)
L_Leave(t) == InBody(t) /\ \E st \in {Statement(t)} : Returns(t, st)

\* an exception leaves the method, through its with block, to the caller
L_Unwind(t) ==
    /\ thread[t].pc = "raise"
    /\ mutex' = IF Locked(Top(t).m) THEN with_exit(mutex, thread[t].exc)
                ELSE mutex
    /\ thread' = Popped(t, TRUE)
    /\ UNCHANGED fields
    /\ NoCaller

\* the steps of a thread that is inside a call and not waiting for the lock
L_Runs(t) ==
    \/ L_Unwind(t)
    \/ /\ InBody(t)
       /\ \E st \in {Statement(t)} :
              \/ Computes(t, st)
              \/ Raises(t, st)
              \/ LooksUp(t, st)
              \/ LookupFails(t, st)
              \/ Calls(t, st)
              \/ Returns(t, st)

NextLock ==
    \E t \in Threads :
        \/ \E frame \in LockCalls : L_Call(t, frame)
        \/ L_Acquire(t)
        \/ L_Local(t)
        \/ L_Raise(t)
        \/ L_Lookup(t)
        \/ L_LookupFails(t)
        \/ L_Nested(t)
        \/ L_Leave(t)
        \/ L_Unwind(t)

\* a running thread takes its next step, a lookup of the oracle ends, and
\* a thread that finds the lock free again and again gets it
LockFairness ==
    \A t \in Threads : WF_vars(L_Runs(t)) /\ SF_vars(L_Acquire(t))

SpecLock == Init /\ [][NextLock]_vars /\ LockFairness

\* the with blocks thread t is inside
Entered(t) ==
    IF thread[t].pc \in {"run", "raise"}
    THEN Cardinality({i \in 1..Len(thread[t].stack) :
                        /\ Locked(thread[t].stack[i].m)
                        /\ thread[t].stack[i].at > 0})
    ELSE 0

\* thread t is at a with statement, outermost or nested
AtAcquire(t) == thread[t].pc = "run" /\ Top(t).at = 0
InCall(t) == thread[t].pc \in {"run", "raise"}

\* the lock is held exactly by a thread inside a with block, once for each
\* block it is inside; a thread whose call has ended holds nothing, and a
\* nested with statement finds the lock the thread's own
LockIsReleased ==
    /\ mutex.owner = 0 <=> mutex.count = 0
    /\ \A t \in Threads :
          /\ Entered(t) > 0 <=> mutex.owner = t
          /\ mutex.owner = t => mutex.count = Entered(t)
          /\ AtAcquire(t) /\ Entered(t) > 0 => mutex.owner = t

\* C21: every public operation has released the channel lock completely
\* when it ends, by a return or by an exception, however deep its nested
\* calls; so, the oracle's lookups ending and the scheduling being fair, a
\* thread at a with statement enters it and every call ends.
C21_LockReleased ==
    /\ []LockIsReleased
    /\ \A t \in Threads : AtAcquire(t) ~> (mutex.owner = t)
    /\ \A t \in Threads : InCall(t) ~> (thread[t].pc = "done")

\* a call that failed three methods deep has ended and left the lock free
\* for the thread that waits at its with statement
C21_Witness ==
    \E t, u \in Threads :
        /\ thread[t].pc = "done"
        /\ thread[t].raised
        /\ thread[t].deep = 3
        /\ AtAcquire(u)
        /\ mutex = [owner |-> 0, count |-> 0]

(***************************************************************************)
(* The timelock a parsed word yields, and the one the getters hand on to   *)
(* is_deposit_expired from a script that carries the word                  *)
(***************************************************************************)

\* a deposit script whose expire time is the word, and a commit script
\* whose delay time is the word
ExpireWordScript(word) ==
    [compile_deposit_script(PayerPubkey, PayeePubkey, hash160hex("ss"), 5)
        EXCEPT ![15] = word]
DelayWordScript(word) ==
    [compile_commit_script(PayerPubkey, PayeePubkey, hash160hex("ss"),
                           hash160hex("s1"), 5)
        EXCEPT ![2] = word]

WithinRange(r) == r.err = "" => (0 <= r.value /\ r.value <= MAX_SEQUENCE)

\* C22: a timelock parse_sequence_value returns lies in 0..0xFFFF, for
\* every opcode and all pushed bytes, and so does the one that
\* get_deposit_expire_time and get_commit_delay_time read from a script.
C22_TimelockWithinRange ==
    sc.phase = "parsed" =>
        /\ WithinRange(sc.result)
        /\ WithinRange(get_deposit_expire_time(ExpireWordScript(sc.word)))
        /\ WithinRange(get_commit_delay_time(DelayWordScript(sc.word)))

\* the same for the words whose last pushed byte has its top bit clear
TimelockWithinRangeTopBitClear ==
    (sc.phase = "parsed" /\ TopBitClear(sc.word))
        => /\ WithinRange(sc.result)
           /\ WithinRange(get_deposit_expire_time(ExpireWordScript(sc.word)))
           /\ WithinRange(get_commit_delay_time(DelayWordScript(sc.word)))

====
